---- MODULE Spec2Model ----
(***************************************************************************)
(* A model of the university enrollment manager: the Student enrollment    *)
(* list (src/models/student.py), Enrollment and GradingService, the        *)
(* AuthenticationService password hashing and session table, the Session   *)
(* object and the SessionManager's current-session slot, the               *)
(* ValidationService, the Admin roster operations, the DataManager's file  *)
(* and the menu handlers of the CLI that change the roster.                *)
(*                                                                         *)
(* Several specifications share the variables; each one moves only the     *)
(* variables of the component it exercises and leaves the others at their  *)
(* initial value.                                                          *)
(***************************************************************************)
EXTENDS Integers, Sequences, FiniteSets, TLC

VARIABLES
    enrollments,      \* Student.enrollments: the ordered list of Enrollment records
    students,         \* the roster handed to login_student (a list of Student)
    sessions,         \* every Session object created so far, indexed by session_id
    active_sessions,  \* AuthenticationService.active_sessions: the session_ids it holds
    current_session,  \* SessionManager._current_session: a session_id, or NoSession
    now,              \* datetime.now(), in hours
    catalog,          \* the catalog of the repeated enroll_random run
    calls,            \* number of enroll_random calls made in that run
    firstNone,        \* index of the first call of that run that returned None (0: none yet)
    password,         \* the password last handed to hash_password
    stored,           \* the value hash_password returned for it
    file,             \* the students.data file of the DataManager
    existing_ids,     \* the list of ids handed to generate_student_id
    op,               \* the last operation performed
    args,             \* its arguments, as a tuple
    ret               \* what it returned

vars == <<enrollments, students, sessions, active_sessions, current_session, now,
          catalog, calls, firstNone, password, stored, file, existing_ids,
          op, args, ret>>

studentVars == <<enrollments>>
sessionVars == <<students, sessions, active_sessions, current_session, now>>
repeatVars  == <<catalog, calls, firstNone>>
hashVars    == <<password, stored>>
storeVars   == <<file, existing_ids>>

\* Python's None, where the other values are strings.
None == "None"

\* None in the current-session slot, where the other values are session ids (1, 2, ...).
NoSession == 0

\* The students.data file while it does not exist.
NoFile == [state |-> "missing", data |-> <<>>]

(***************************************************************************)
(* Bounds of the model.                                                    *)
(***************************************************************************)
NumSubjects == 5       \* subjects of the catalog that are used
MaxRepeatCalls == 7    \* calls made in the repeated enroll_random run
MarkMargin == 5        \* how far outside 0..100 the marks handed to calculate_grade go
MaxPasswordLen == 2    \* longest password handed to hash_password and verify_password
SaltLen == 1           \* hex digits of a salt (token_hex(16) gives 32)
MaxSessions == 2       \* sessions created in one run
MaxTicks == 3          \* times the clock advances in one run
NumIdDraws == 4        \* numbers that random.randint(1, 999999) may draw for a student id
MaxRosterLen == 3      \* students of a roster handed to the Admin operations
MaxStoredEnrollments == 2  \* enrollments of the student whose roster is saved and loaded
MaxCliCalls == 4       \* menu handlers run in one session of the CLI
NumCliSubjects == 2    \* subjects of the catalog that the CLI offers
MaxLifetimeSessions == 1  \* sessions created in one run of the session-lifetime specification

(***************************************************************************)
(* Grading (src/models/grading.py).                                        *)
(***************************************************************************)
\* GradingService.grade_rules, in the dict's insertion order.
grade_rules ==
    << <<"Z", 0, 49>>, <<"P", 50, 64>>, <<"C", 65, 74>>, <<"D", 75, 84>>, <<"HD", 85, 100>> >>

Grades == {grade_rules[i][1] : i \in 1..Len(grade_rules)}

MinOf(S) == CHOOSE x \in S : \A y \in S : x <= y

\* calculate_grade with the lower end of each range excluded.
calculate_grade_open_below(m) ==
    LET hits == {i \in 1..Len(grade_rules) :
                    grade_rules[i][2] < m /\ m <= grade_rules[i][3]}
    IN  IF hits = {} THEN "Z" ELSE grade_rules[MinOf(hits)][1]

\* The first rule whose inclusive range holds the mark; 'Z' when none does.
calculate_grade(m) ==
    LET hits == {i \in 1..Len(grade_rules) :
                    grade_rules[i][2] <= m /\ m <= grade_rules[i][3]}
    IN  IF hits = {} THEN "Z" ELSE grade_rules[MinOf(hits)][1]

(***************************************************************************)
(* Enrollment (src/models/enrollment.py).  An optional argument is a       *)
(* sequence: <<>> for None, <<v>> for the value v.                         *)
(***************************************************************************)
\* random.randint(25, 100): the draws the model takes, its two ends.
RandomMarks == {25, 100}

\* Python's truth value of an optional int: None and 0 are false.
Truthy(opt) == opt # <<>> /\ opt[1] # 0

\* An Enrollment whose grade is always the pass grade.
NewEnrollment_grade_fixed(student_id, subject_id, optMark, optGrade, rnd) ==
    [student_id |-> student_id,
     subject_id |-> subject_id,
     mark       |-> IF Truthy(optMark) THEN optMark[1] ELSE rnd,
     grade      |-> "P"]

\* Enrollment.__init__: mark = mark or random; grade = grade or calculate_grade(mark).
NewEnrollment(student_id, subject_id, optMark, optGrade, rnd) ==
    LET m == IF Truthy(optMark) THEN optMark[1] ELSE rnd
    IN  [student_id |-> student_id,
         subject_id |-> subject_id,
         mark       |-> m,
         grade      |-> IF optGrade # <<>> /\ optGrade[1] # ""
                        THEN optGrade[1] ELSE calculate_grade(m)]

(***************************************************************************)
(* Student (src/models/student.py).                                        *)
(***************************************************************************)
\* The catalog of CLIUniApp._initialize_subjects, in its order.
sample_subjects == <<"101", "102", "201", "301", "401", "111", "112", "121", "131", "141">>

SubjectIds == {sample_subjects[i] : i \in 1..NumSubjects}

\* The student whose enrollment list is modelled.
TheStudentId == "000001"

\* The cap of Student.enroll and Student.enroll_random.
MaxEnrollments == 4

EnrolledIds(enrs) == {enrs[i].subject_id : i \in 1..Len(enrs)}

\* Student.enroll with the cap test written > where the code has >=.
enroll_cap_off_by_one(enrs, subject_id, rnd) ==
    IF Len(enrs) > MaxEnrollments
    THEN [ok |-> FALSE, enrollments |-> enrs]
    ELSE IF \E i \in 1..Len(enrs) : enrs[i].subject_id = subject_id
    THEN [ok |-> FALSE, enrollments |-> enrs]
    ELSE [ok |-> TRUE,
          enrollments |-> Append(enrs, NewEnrollment(TheStudentId, subject_id, <<>>, <<>>, rnd))]

\* Student.enroll with the duplicate test looking at the last record only.
enroll_checks_last_only(enrs, subject_id, rnd) ==
    IF Len(enrs) >= MaxEnrollments
    THEN [ok |-> FALSE, enrollments |-> enrs]
    ELSE IF enrs # <<>> /\ enrs[Len(enrs)].subject_id = subject_id
    THEN [ok |-> FALSE, enrollments |-> enrs]
    ELSE [ok |-> TRUE,
          enrollments |-> Append(enrs, NewEnrollment(TheStudentId, subject_id, <<>>, <<>>, rnd))]

\* Student.enroll: [ok, enrollments] after the call; rnd is the random mark drawn.
enroll(enrs, subject_id, rnd) ==
    IF Len(enrs) >= MaxEnrollments
    THEN [ok |-> FALSE, enrollments |-> enrs]
    ELSE IF \E i \in 1..Len(enrs) : enrs[i].subject_id = subject_id
    THEN [ok |-> FALSE, enrollments |-> enrs]
    ELSE [ok |-> TRUE,
          enrollments |-> Append(enrs, NewEnrollment(TheStudentId, subject_id, <<>>, <<>>, rnd))]

\* The eligible list without the filter on the enrolled subject_ids.
eligible_unfiltered(available, enrolled) == available

\* The eligible_subjects list of Student.enroll_random, in catalog order.
RECURSIVE eligible_subjects(_, _)
eligible_subjects(available, enrolled) ==
    IF available = <<>> THEN <<>>
    ELSE LET rest == eligible_subjects(Tail(available), enrolled)
         IN  IF Head(available) \notin enrolled THEN <<Head(available)>> \o rest ELSE rest

\* Student.enroll_random choosing among the whole catalog, enrolled subjects included.
enroll_random_any(enrs, available, pick, rnd) ==
    IF Len(enrs) >= MaxEnrollments \/ available = <<>>
    THEN [ret |-> None, enrollments |-> enrs]
    ELSE LET selected == available[pick]
             r == enroll(enrs, selected, rnd)
         IN  IF r.ok THEN [ret |-> selected, enrollments |-> r.enrollments]
             ELSE [ret |-> None, enrollments |-> r.enrollments]

\* Student.enroll_random with random.choice picking index pick of the eligible list:
\* [ret, enrollments] after the call.
enroll_random(enrs, available, pick, rnd) ==
    IF Len(enrs) >= MaxEnrollments
    THEN [ret |-> None, enrollments |-> enrs]
    ELSE LET eligible == eligible_subjects(available, EnrolledIds(enrs))
         IN  IF eligible = <<>>
             THEN [ret |-> None, enrollments |-> enrs]
             ELSE LET selected == eligible[pick]
                      r == enroll(enrs, selected, rnd)
                  IN  IF r.ok THEN [ret |-> selected, enrollments |-> r.enrollments]
                      ELSE [ret |-> None, enrollments |-> r.enrollments]

\* The index random.choice may pick: any of the eligible list (1 when it is empty and
\* the choice is never made).
Picks(enrs, available) ==
    LET n == Len(eligible_subjects(available, EnrolledIds(enrs)))
    IN  IF n = 0 THEN {1} ELSE 1..n

\* remove_subject that also drops every record after the one it deletes.
remove_subject_drops_tail(enrs, subject_id) ==
    LET found == {i \in 1..Len(enrs) : enrs[i].subject_id = subject_id}
    IN  IF found = {}
        THEN [ok |-> FALSE, enrollments |-> enrs]
        ELSE [ok |-> TRUE, enrollments |-> SubSeq(enrs, 1, MinOf(found) - 1)]

\* Student.remove_subject: deletes the first record with the subject_id.
remove_subject(enrs, subject_id) ==
    LET found == {i \in 1..Len(enrs) : enrs[i].subject_id = subject_id}
    IN  IF found = {}
        THEN [ok |-> FALSE, enrollments |-> enrs]
        ELSE LET i == MinOf(found)
             IN  [ok |-> TRUE,
                  enrollments |-> SubSeq(enrs, 1, i - 1) \o SubSeq(enrs, i + 1, Len(enrs))]

\* The catalogs handed to enroll_random: the empty one, the first subject alone, the
\* first two, the last one alone, all of them, and one that lists a subject twice.
Catalogs ==
    {SubSeq(sample_subjects, 1, j) : j \in {0, 1, 2, NumSubjects}}
        \cup {<<sample_subjects[NumSubjects]>>,
              <<sample_subjects[2], sample_subjects[1], sample_subjects[2]>>}

(***************************************************************************)
(* Password hashing (src/models/auth.py).  A string is a sequence of       *)
(* one-character strings.                                                  *)
(***************************************************************************)
PasswordChars == {"A", "1", ":"}
SaltChars == {"0", "f"}

\* The characters of codes 32 to 95 and of codes 97 to 126, in the order of their codes.
PrintableChars ==
    <<" ", "!", "\"", "#", "$", "%", "&", "'", "(", ")", "*", "+", ",", "-", ".", "/",
       "0", "1", "2", "3", "4", "5", "6", "7", "8", "9", ":", ";", "<", "=", ">", "?",
       "@", "A", "B", "C", "D", "E", "F", "G", "H", "I", "J", "K", "L", "M", "N", "O",
       "P", "Q", "R", "S", "T", "U", "V", "W", "X", "Y", "Z", "[", "\\", "]", "^", "_">>
LowerPrintableChars ==
    <<"a", "b", "c", "d", "e", "f", "g", "h", "i", "j", "k", "l", "m", "n", "o", "p",
       "q", "r", "s", "t", "u", "v", "w", "x", "y", "z", "{", "|", "}", "~">>

\* ord(c): the code of a character, a newline included.
CodeOf(c) ==
    IF c = "\n" THEN 10
    ELSE IF \E i \in 1..Len(PrintableChars) : PrintableChars[i] = c
    THEN 31 + CHOOSE i \in 1..Len(PrintableChars) : PrintableChars[i] = c
    ELSE 96 + CHOOSE i \in 1..Len(LowerPrintableChars) : LowerPrintableChars[i] = c

HexDigits ==
    <<"0", "1", "2", "3", "4", "5", "6", "7", "8", "9", "a", "b", "c", "d", "e", "f">>

\* The two hex digits of a character's code.
HexCode ==
    [c \in {PrintableChars[i] : i \in 1..Len(PrintableChars)}
            \cup {LowerPrintableChars[i] : i \in 1..Len(LowerPrintableChars)}
            \cup {"\n"} |->
        <<HexDigits[(CodeOf(c) \div 16) + 1], HexDigits[(CodeOf(c) % 16) + 1]>>]

\* hashlib.sha256(s.encode()).hexdigest(), modelled as an injective map from strings
\* to strings of hex digits: the hex encoding of s.
RECURSIVE Digest(_)
Digest(s) == IF s = <<>> THEN <<>> ELSE HexCode[Head(s)] \o Digest(Tail(s))

\* secrets.token_hex: the salts that may be drawn.
Salts == [1..SaltLen -> SaltChars]

\* hash_password with the salt put before the password in the digest.
hash_password_salt_first(p, salt) == salt \o <<":">> \o Digest(salt \o p)

\* AuthenticationService.hash_password with the salt drawn: salt ":" sha256(password + salt).
hash_password(p, salt) == salt \o <<":">> \o Digest(p \o salt)

\* str.split(sep): the parts between the separators, in order.
RECURSIVE Split(_, _)
Split(s, sep) ==
    IF s = <<>> THEN << <<>> >>
    ELSE LET rest == Split(Tail(s), sep)
         IN  IF Head(s) = sep
             THEN << <<>> >> \o rest
             ELSE << <<Head(s)>> \o rest[1] >> \o Tail(rest)

\* verify_password that unpacks the first two parts and ignores any others.
verify_password_first_two(p, hashed_password) ==
    LET parts == Split(hashed_password, ":")
    IN  IF Len(parts) < 2 THEN FALSE
        ELSE Digest(p \o parts[1]) = parts[2]

\* AuthenticationService.verify_password: unpacking anything but two parts raises
\* ValueError, which is caught and answered with False.
verify_password(p, hashed_password) ==
    LET parts == Split(hashed_password, ":")
    IN  IF Len(parts) # 2 THEN FALSE
        ELSE Digest(p \o parts[1]) = parts[2]

Passwords == UNION {[1..n -> PasswordChars] : n \in 0..MaxPasswordLen}

(***************************************************************************)
(* Session (src/models/session.py), AuthenticationService and              *)
(* SessionManager (src/models/auth.py, src/models/session_manager.py).     *)
(* Time is counted in hours.                                               *)
(***************************************************************************)
\* UserRole.
STUDENT == "student"
ADMIN == "admin"

\* timedelta(hours=24) of Session.__init__ and Session.refresh.
SessionHours == 24

\* The step of the clock: half a session's life, so that a run sees a session
\* before, at and after its expiry.
TickHours == SessionHours \div 2

\* Admin.PREDEFINED_ADMINS.
PREDEFINED_ADMINS ==
    [a \in {"admin001", "admin002", "admin003"} |->
        CASE a = "admin001" -> [name |-> "Dr. Sarah Johnson", password |-> "Admin123"]
          [] a = "admin002" -> [name |-> "Prof. Michael Chen", password |-> "Admin456"]
          [] a = "admin003" -> [name |-> "Ms. Lisa Williams", password |-> "Admin789"]]

\* Session.__init__ at time t; session_id stands for the fresh random token.
Session(session_id, user_id, user_role, user_name, t) ==
    [session_id |-> session_id,
     user_id    |-> user_id,
     user_role  |-> user_role,
     user_name  |-> user_name,
     created_at |-> t,
     expires_at |-> t + SessionHours,
     is_active  |-> TRUE]

\* Session.is_valid that never looks at the clock.
is_valid_ignores_expiry(s, t) == s.is_active /\ t = t

\* Session.is_valid with the expiry instant itself still counted as valid.
is_valid_until_inclusive(s, t) == s.is_active /\ t <= s.expires_at

\* Session.is_valid at time t.
is_valid(s, t) == s.is_active /\ t < s.expires_at

\* The scan of authenticate_student keeping the last match instead of the first.
authenticate_student_last_match(email, pw, roster) ==
    LET matches == {i \in 1..Len(roster) :
                       roster[i].email = email /\ verify_password(pw, roster[i].password_hash)}
    IN  IF matches = {} THEN 0 ELSE CHOOSE i \in matches : \A j \in matches : j <= i

\* The scan of AuthenticationService.authenticate_student: the index of the first
\* student with the email whose stored hash verifies the password, 0 when none.
authenticate_student(email, pw, roster) ==
    LET matches == {i \in 1..Len(roster) :
                       roster[i].email = email /\ verify_password(pw, roster[i].password_hash)}
    IN  IF matches = {} THEN 0 ELSE MinOf(matches)

\* AuthenticationService.authenticate_admin: whether the id is in the table with
\* exactly this password.
authenticate_admin(admin_id, pw, admins) ==
    admin_id \in DOMAIN admins /\ admins[admin_id].password = pw

\* AuthenticationService.logout that forgets to invalidate the session.
auth_logout_keeps_active(session_id, objs, table) ==
    IF session_id \in table
    THEN [ok |-> TRUE, sessions |-> objs, active_sessions |-> table \ {session_id}]
    ELSE [ok |-> FALSE, sessions |-> objs, active_sessions |-> table]

\* AuthenticationService.logout: [ok, sessions, active_sessions] after the call.
auth_logout(session_id, objs, table) ==
    IF session_id \in table
    THEN [ok |-> TRUE,
          sessions |-> [objs EXCEPT ![session_id].is_active = FALSE],
          active_sessions |-> table \ {session_id}]
    ELSE [ok |-> FALSE, sessions |-> objs, active_sessions |-> table]

\* SessionManager.get_current_session at time t: [ret, current_session] after the call.
get_current_session(cur, objs, t) ==
    IF cur # NoSession /\ is_valid(objs[cur], t)
    THEN [ret |-> cur, current_session |-> cur]
    ELSE [ret |-> NoSession, current_session |-> NoSession]

\* The students of the rosters: two hold the same email and password under different
\* salts, one the same email with another password, one another email.
saltA == [i \in 1..SaltLen |-> "0"]
saltB == [i \in 1..SaltLen |-> "f"]
pwA == <<"A", "1">>
pwB == <<"A", ":">>
Student(student_id, name, email, pw, salt) ==
    [student_id |-> student_id, name |-> name, email |-> email,
     password_hash |-> hash_password(pw, salt)]
ann1 == Student("000001", "Ann", "ann@university.com", pwA, saltA)
ann2 == Student("000002", "Anna", "ann@university.com", pwB, saltA)
ann3 == Student("000003", "Anne", "ann@university.com", pwA, saltB)
bob  == Student("000004", "Bob", "bob@university.com", pwA, saltB)

Rosters == {<<>>, <<bob, ann2, ann1, ann3>>, <<ann3, ann1>>}

EmailInputs == {"ann@university.com", "eve@university.com"}
PasswordInputs == {pwA, pwB, <<"1">>}
AdminIdInputs == {"admin001", "admin999"}
AdminPasswordInputs == {"Admin123", "Admin456"}

(***************************************************************************)
(* The Student specification: enroll, enroll_random and remove_subject on  *)
(* one student that starts with no enrollments.                            *)
(***************************************************************************)
IdleStudent == enrollments = <<>>
IdleSession == /\ students = <<>>
               /\ sessions = <<>>
               /\ active_sessions = {}
               /\ current_session = NoSession
               /\ now = 0
IdleRepeat  == catalog = <<>> /\ calls = 0 /\ firstNone = 0
IdleHash    == password = <<>> /\ stored = <<>>
IdleStore   == file = NoFile /\ existing_ids = <<>>

Init ==
    /\ IdleStudent /\ IdleSession /\ IdleRepeat /\ IdleHash /\ IdleStore
    /\ op = "init"
    /\ args = <<>>
    /\ ret = None

Enroll(subject_id, rnd) ==
    LET r == enroll(enrollments, subject_id, rnd)
    IN  /\ enrollments' = r.enrollments
        /\ op' = "enroll"
        /\ args' = <<subject_id>>
        /\ ret' = r.ok
        /\ UNCHANGED <<sessionVars, repeatVars, hashVars, storeVars>>

EnrollRandom(available, pick, rnd) ==
    LET r == enroll_random(enrollments, available, pick, rnd)
    IN  /\ enrollments' = r.enrollments
        /\ op' = "enroll_random"
        /\ args' = <<available>>
        /\ ret' = r.ret
        /\ UNCHANGED <<sessionVars, repeatVars, hashVars, storeVars>>

RemoveSubject(subject_id) ==
    LET r == remove_subject(enrollments, subject_id)
    IN  /\ enrollments' = r.enrollments
        /\ op' = "remove_subject"
        /\ args' = <<subject_id>>
        /\ ret' = r.ok
        /\ UNCHANGED <<sessionVars, repeatVars, hashVars, storeVars>>

Next ==
    \/ \E s \in SubjectIds, rnd \in RandomMarks : Enroll(s, rnd)
    \/ \E c \in Catalogs : \E pick \in Picks(enrollments, c), rnd \in RandomMarks :
          EnrollRandom(c, pick, rnd)
    \/ \E s \in SubjectIds : RemoveSubject(s)

Spec == Init /\ [][Next]_vars

(***************************************************************************)
(* The repeated run: enroll_random called again and again on a fresh       *)
(* student over one catalog of distinct subjects.                          *)
(***************************************************************************)
RepeatCatalogs == {SubSeq(sample_subjects, 1, n) : n \in 1..NumSubjects}

InitRepeat ==
    /\ IdleStudent /\ IdleSession /\ IdleHash /\ IdleStore
    /\ catalog \in RepeatCatalogs
    /\ calls = 0
    /\ firstNone = 0
    /\ op = "init"
    /\ args = <<>>
    /\ ret = None

RepeatEnrollRandom(pick, rnd) ==
    LET r == enroll_random(enrollments, catalog, pick, rnd)
    IN  /\ calls < MaxRepeatCalls
        /\ enrollments' = r.enrollments
        /\ calls' = calls + 1
        /\ firstNone' = IF firstNone = 0 /\ r.ret = None THEN calls + 1 ELSE firstNone
        /\ op' = "enroll_random"
        /\ args' = <<catalog>>
        /\ ret' = r.ret
        /\ UNCHANGED <<catalog, sessionVars, hashVars, storeVars>>

NextRepeat ==
    \E pick \in Picks(enrollments, catalog), rnd \in RandomMarks : RepeatEnrollRandom(pick, rnd)

SpecRepeat == InitRepeat /\ [][NextRepeat]_vars

(***************************************************************************)
(* The grading specification: calculate_grade applied to integer marks.    *)
(***************************************************************************)
MarkInputs == (0 - MarkMargin)..(100 + MarkMargin)

CalculateGrade(m) ==
    /\ op' = "calculate_grade"
    /\ args' = <<m>>
    /\ ret' = calculate_grade(m)
    /\ UNCHANGED <<studentVars, sessionVars, repeatVars, hashVars, storeVars>>

NextGrade == \E m \in MarkInputs : CalculateGrade(m)

SpecGrade == Init /\ [][NextGrade]_vars

(***************************************************************************)
(* The hashing specification: a password is hashed with a fresh salt, then *)
(* passwords are verified against the stored value.                        *)
(***************************************************************************)
HashPassword(p, salt) ==
    /\ password' = p
    /\ stored' = hash_password(p, salt)
    /\ op' = "hash_password"
    /\ args' = <<p>>
    /\ ret' = None
    /\ UNCHANGED <<studentVars, sessionVars, repeatVars, storeVars>>

VerifyPassword(q) ==
    /\ op # "init"
    /\ op' = "verify_password"
    /\ args' = <<q, stored>>
    /\ ret' = verify_password(q, stored)
    /\ UNCHANGED <<studentVars, sessionVars, repeatVars, hashVars, storeVars>>

NextHash ==
    \/ \E p \in Passwords, salt \in Salts : HashPassword(p, salt)
    \/ \E q \in Passwords : VerifyPassword(q)

SpecHash == Init /\ [][NextHash]_vars

(***************************************************************************)
(* The session specification: login_student, login_admin, logout and       *)
(* get_current_session on the SessionManager over a fixed roster, while    *)
(* the clock advances.                                                     *)
(***************************************************************************)
InitSession ==
    /\ IdleStudent /\ IdleRepeat /\ IdleHash /\ IdleStore
    /\ students \in Rosters
    /\ sessions = <<>>
    /\ active_sessions = {}
    /\ current_session = NoSession
    /\ now = 0
    /\ op = "init"
    /\ args = <<>>
    /\ ret = None

\* A login that sets the slot without the session being put in the table.
StoreSession_skips_table(s) ==
    /\ Len(sessions) < MaxSessions
    /\ sessions' = Append(sessions, s)
    /\ active_sessions' = active_sessions
    /\ current_session' = s.session_id
    /\ ret' = TRUE

\* What both logins do with the Session that authentication created.
StoreSession(s) ==
    /\ Len(sessions) < MaxSessions
    /\ sessions' = Append(sessions, s)
    /\ active_sessions' = active_sessions \cup {s.session_id}
    /\ current_session' = s.session_id
    /\ ret' = TRUE

\* login_student that empties the slot when authentication fails.
LoginStudent_clears_slot(email, pw) ==
    LET i == authenticate_student(email, pw, students)
    IN  /\ op' = "login_student"
        /\ args' = <<email, pw>>
        /\ IF i # 0
           THEN StoreSession(Session(Len(sessions) + 1, students[i].student_id, STUDENT,
                                     students[i].name, now))
           ELSE /\ ret' = FALSE
                /\ current_session' = NoSession
                /\ UNCHANGED <<sessions, active_sessions>>
        /\ UNCHANGED <<students, now, studentVars, repeatVars, hashVars, storeVars>>

LoginStudent(email, pw) ==
    LET i == authenticate_student(email, pw, students)
    IN  /\ op' = "login_student"
        /\ args' = <<email, pw>>
        /\ IF i # 0
           THEN StoreSession(Session(Len(sessions) + 1, students[i].student_id, STUDENT,
                                     students[i].name, now))
           ELSE ret' = FALSE /\ UNCHANGED <<sessions, active_sessions, current_session>>
        /\ UNCHANGED <<students, now, studentVars, repeatVars, hashVars, storeVars>>

LoginAdmin(admin_id, pw) ==
    /\ op' = "login_admin"
    /\ args' = <<admin_id, pw>>
    /\ IF authenticate_admin(admin_id, pw, PREDEFINED_ADMINS)
       THEN StoreSession(Session(Len(sessions) + 1, admin_id, ADMIN,
                                 PREDEFINED_ADMINS[admin_id].name, now))
       ELSE ret' = FALSE /\ UNCHANGED <<sessions, active_sessions, current_session>>
    /\ UNCHANGED <<students, now, studentVars, repeatVars, hashVars, storeVars>>

Logout ==
    /\ op' = "logout"
    /\ args' = <<>>
    /\ IF current_session # NoSession
       THEN LET r == auth_logout(current_session, sessions, active_sessions)
            IN  /\ sessions' = r.sessions
                /\ active_sessions' = r.active_sessions
                /\ current_session' = NoSession
                /\ ret' = r.ok
       ELSE ret' = FALSE /\ UNCHANGED <<sessions, active_sessions, current_session>>
    /\ UNCHANGED <<students, now, studentVars, repeatVars, hashVars, storeVars>>

GetCurrentSession ==
    LET r == get_current_session(current_session, sessions, now)
    IN  /\ op' = "get_current_session"
        /\ args' = <<>>
        /\ current_session' = r.current_session
        /\ ret' = r.ret
        /\ UNCHANGED <<students, sessions, active_sessions, now,
                       studentVars, repeatVars, hashVars, storeVars>>

Tick ==
    /\ now < MaxTicks * TickHours
    /\ now' = now + TickHours
    /\ op' = "tick"
    /\ args' = <<>>
    /\ ret' = None
    /\ UNCHANGED <<students, sessions, active_sessions, current_session,
                   studentVars, repeatVars, hashVars, storeVars>>

NextSession ==
    \/ \E email \in EmailInputs, pw \in PasswordInputs : LoginStudent(email, pw)
    \/ \E admin_id \in AdminIdInputs, pw \in AdminPasswordInputs : LoginAdmin(admin_id, pw)
    \/ Logout
    \/ GetCurrentSession
    \/ Tick

SpecSession == InitSession /\ [][NextSession]_vars

(***************************************************************************)
(* Claims about the Student specification.                                 *)
(***************************************************************************)
\* C1: after any sequence of enroll, enroll_random and remove_subject calls on a
\* student that starts with no enrollments, the student holds at most 4 Enrollment
\* records and no two of them have the same subject_id.
C1_AtMostFourDistinct ==
    /\ Len(enrollments) <= 4
    /\ \A i, j \in 1..Len(enrollments) :
          i # j => enrollments[i].subject_id # enrollments[j].subject_id

\* An enroll call made at the cap has been turned down.
C1_Witness == op = "enroll" /\ ret = FALSE /\ Len(enrollments) = 4

\* C6: enroll(subject) returns false and leaves the list unchanged when the student
\* already has 4 enrollments or one with that subject_id; otherwise it returns true
\* and appends exactly one Enrollment for that subject_id at the end, the earlier
\* records unchanged and in order.
C6_EnrollContract ==
    [][op' = "enroll" =>
          LET s == args'[1]
          IN  IF Len(enrollments) >= 4 \/ s \in EnrolledIds(enrollments)
              THEN ret' = FALSE /\ enrollments' = enrollments
              ELSE /\ ret' = TRUE
                   /\ Len(enrollments') = Len(enrollments) + 1
                   /\ SubSeq(enrollments', 1, Len(enrollments)) = enrollments
                   /\ enrollments'[Len(enrollments')].subject_id = s]_vars

\* An enroll call below the cap has been turned down (the subject was enrolled).
C6_Witness == op = "enroll" /\ ret = FALSE /\ Len(enrollments) \in 1..3

\* C7: enroll_random(catalog) returns nothing and leaves the list unchanged exactly
\* when the student is at the cap or every catalog subject_id is already enrolled;
\* otherwise it returns a catalog subject that was not enrolled before the call and
\* the enrollment count grows by exactly one.
C7_EnrollRandomContract ==
    [][op' = "enroll_random" =>
          LET c == args'[1]
              catalogIds == {c[i] : i \in 1..Len(c)}
          IN  IF Len(enrollments) >= 4 \/ catalogIds \subseteq EnrolledIds(enrollments)
              THEN ret' = None /\ enrollments' = enrollments
              ELSE /\ ret' # None
                   /\ ret' \in catalogIds
                   /\ ret' \notin EnrolledIds(enrollments)
                   /\ Len(enrollments') = Len(enrollments) + 1]_vars

\* enroll_random has filled the fourth place with the subject it returned.
C7_Witness ==
    /\ op = "enroll_random" /\ ret # None
    /\ Len(enrollments) = 4 /\ enrollments[4].subject_id = ret

(***************************************************************************)
(* Claims about the repeated run and about grading.                        *)
(***************************************************************************)
MinNum(a, b) == IF a <= b THEN a ELSE b

\* C8, as stated: over a catalog of N >= 1 distinct subjects, the first call of a
\* repeated enroll_random run on a fresh student that returns nothing is one of the
\* first N calls.
C8_FirstNoneWithinN ==
    calls >= Len(catalog) => firstNone \in 1..Len(catalog)

\* C8, amended: the calls numbered 1..min(N, 4) each enroll a subject, and the first
\* call that returns nothing is call number min(N, 4) + 1, made when all N subjects
\* are enrolled or the cap of 4 is reached, whichever comes first; it is among the
\* first N calls only when N > 4.
C8_FirstNoneAfterFilling ==
    LET filled == MinNum(Len(catalog), 4)
    IN  /\ calls <= filled => firstNone = 0 /\ Len(enrollments) = calls
        /\ calls > filled => firstNone = filled + 1 /\ Len(enrollments) = filled
        /\ firstNone # 0 =>
              \/ EnrolledIds(enrollments) = {catalog[i] : i \in 1..Len(catalog)}
              \/ Len(enrollments) = 4

\* Over a catalog of two subjects the third call was the first to return nothing.
C8_Witness == Len(catalog) = 2 /\ firstNone = 3 /\ calls = 3

\* C9: for every integer mark m in 0..100 calculate_grade(m) is Z for 0..49, P for
\* 50..64, C for 65..74, D for 75..84 and HD for 85..100, and for every integer
\* outside 0..100 it is Z.
C9_GradeBands ==
    op = "calculate_grade" =>
       LET m == args[1]
       IN  /\ ret \in {"Z", "P", "C", "D", "HD"}
           /\ m \in 0..49 => ret = "Z"
           /\ m \in 50..64 => ret = "P"
           /\ m \in 65..74 => ret = "C"
           /\ m \in 75..84 => ret = "D"
           /\ m \in 85..100 => ret = "HD"
           /\ m \notin 0..100 => ret = "Z"

\* A mark on the lower edge of a band has been graded.
C9_Witness == op = "calculate_grade" /\ args[1] = 85 /\ ret = "HD"

\* C10: for every password p and every salt, verify_password(p, hash_password(p)) is
\* true and verify_password(q, hash_password(p)) is false for every q different from
\* p, the digest being an injective function of password + salt.
C10_HashRoundTrip ==
    op = "verify_password" => ret = (args[1] = password)

\* A password that holds the separator has been verified against its own hash.
C10_Witness ==
    /\ op = "verify_password" /\ args[1] = password /\ ret = TRUE
    /\ \E i \in 1..Len(password) : password[i] = ":"

(***************************************************************************)
(* Claims about the session specification.                                 *)
(***************************************************************************)
\* The sessions created so far that are valid now: active flag set, not yet expired.
ValidSessions ==
    {i \in 1..Len(sessions) : sessions[i].is_active /\ now < sessions[i].expires_at}

\* C2: after any sequence of login_student, login_admin, logout and
\* get_current_session calls, at most one session created in the process is valid
\* at any time; a successful login made while another session is current leaves no
\* second valid session behind.
C2_AtMostOneValidSession == Cardinality(ValidSessions) <= 1

\* C3: a Session is valid at the moment it is created, and is valid exactly while its
\* active flag is set and the time is strictly before expires_at: get_current_session
\* returns the current session then, and at or after expires_at returns nothing and
\* leaves the slot empty, where it stays until a new successful login.
C3_SessionValidity ==
    [][/\ (op' \in {"login_student", "login_admin"} /\ ret' = TRUE) =>
            /\ current_session' \in 1..Len(sessions')
            /\ sessions'[current_session'].is_active
            /\ sessions'[current_session'].expires_at = now' + 24
            /\ get_current_session(current_session', sessions', now').ret = current_session'
       /\ (op' = "get_current_session" /\ current_session # NoSession) =>
            IF sessions[current_session].is_active /\ now < sessions[current_session].expires_at
            THEN ret' = current_session /\ current_session' = current_session
            ELSE ret' = NoSession /\ current_session' = NoSession
       /\ (op' = "get_current_session" /\ current_session = NoSession) =>
            ret' = NoSession /\ current_session' = NoSession
       /\ (current_session = NoSession /\ current_session' # NoSession) =>
            op' \in {"login_student", "login_admin"} /\ ret' = TRUE]_vars

\* get_current_session, called at the very instant a still active session expires,
\* has returned nothing and the slot is empty.
C3_Witness ==
    /\ op = "get_current_session" /\ ret = NoSession /\ current_session = NoSession
    /\ Len(sessions) = 1 /\ sessions[1].is_active /\ sessions[1].expires_at = now

\* C4: logout with a session in the slot sets that session's active flag to false,
\* removes it from the active-session table and empties the slot, so that
\* is_logged_in is false afterwards; logout with an empty slot returns false and
\* changes nothing.
C4_LogoutContract ==
    [][op' = "logout" =>
          IF current_session # NoSession
          THEN /\ sessions'[current_session].is_active = FALSE
               /\ current_session \notin active_sessions'
               /\ current_session' = NoSession
               /\ get_current_session(current_session', sessions', now').ret = NoSession
          ELSE /\ ret' = FALSE
               /\ UNCHANGED <<sessions, active_sessions, current_session, students, now>>]_vars

\* A logout has ended a session before its expiry.
C4_Witness ==
    /\ op = "logout" /\ ret = TRUE /\ current_session = NoSession
    /\ \E i \in 1..Len(sessions) :
          /\ ~sessions[i].is_active
          /\ i \notin active_sessions
          /\ now < sessions[i].expires_at

\* C5: login_student returns true exactly when some student of the roster has the
\* given email and a stored hash that verifies the given password; the current
\* session then is a new session with role STUDENT whose user_id and user_name are
\* those of the first such student in roster order, registered in the
\* active-session table.
C5_LoginStudentContract ==
    [][op' = "login_student" =>
          LET email == args'[1]
              pw == args'[2]
              matching == {i \in 1..Len(students) :
                              /\ students[i].email = email
                              /\ verify_password(pw, students[i].password_hash)}
          IN  /\ ret' = (matching # {})
              /\ matching # {} =>
                    LET first == students[MinOf(matching)]
                    IN  /\ current_session' = Len(sessions) + 1
                        /\ Len(sessions') = Len(sessions) + 1
                        /\ sessions'[current_session'].user_role = "student"
                        /\ sessions'[current_session'].user_id = first.student_id
                        /\ sessions'[current_session'].user_name = first.name
                        /\ sessions'[current_session'].session_id = current_session'
                        /\ current_session' \in active_sessions']_vars

\* A login has matched two students of the roster and taken the first of them.
C5_Witness ==
    /\ op = "login_student" /\ ret = TRUE
    /\ students = <<bob, ann2, ann1, ann3>>
    /\ sessions[current_session].user_id = ann1.student_id

(***************************************************************************)
(* More claims about the Student specification.                            *)
(***************************************************************************)
\* The list enrs without its i-th record.
Without(enrs, i) == SubSeq(enrs, 1, i - 1) \o SubSeq(enrs, i + 1, Len(enrs))

\* C14: remove_subject returns true exactly when a record with the subject_id was in
\* the list; then exactly that one record is gone and the others keep their order;
\* when it returns false the list is unchanged.
C14_RemoveSubjectContract ==
    [][op' = "remove_subject" =>
          LET found == {i \in 1..Len(enrollments) :
                           enrollments[i].subject_id = args'[1]}
          IN  /\ ret' = (found # {})
              /\ IF found = {}
                 THEN enrollments' = enrollments
                 ELSE \E i \in found : enrollments' = Without(enrollments, i)]_vars

\* A record was removed from a list of four.
C14_Witness ==
    /\ op = "remove_subject" /\ ret = TRUE
    /\ Len(enrollments) = 3
    /\ args[1] \notin EnrolledIds(enrollments)

\* C20: every Enrollment the student holds has a mark in 25..100 and the grade
\* calculate_grade gives for that mark, and a call of enroll, enroll_random or
\* remove_subject changes neither value of a record that stays in the list.
C20_MarksAndGradesStable ==
    /\ [](\A i \in 1..Len(enrollments) :
             /\ enrollments[i].mark \in 25..100
             /\ enrollments[i].grade = calculate_grade(enrollments[i].mark))
    /\ [][\A i \in 1..Len(enrollments), j \in 1..Len(enrollments') :
             enrollments[i].subject_id = enrollments'[j].subject_id
                => /\ enrollments'[j].mark = enrollments[i].mark
                   /\ enrollments'[j].grade = enrollments[i].grade]_vars

\* A full list that holds both ends of the mark range, after a later enroll_random.
C20_Witness ==
    /\ op = "enroll_random" /\ Len(enrollments) = 4
    /\ {enrollments[i].grade : i \in 1..4} = {"Z", "HD"}

(***************************************************************************)
(* The Enrollment specification: the constructor called with and without   *)
(* a mark and a grade (src/models/enrollment.py).                          *)
(***************************************************************************)
\* The mark argument: left out, or any integer of the documented range.
MarkArgs == {<<>>} \cup {<<m>> : m \in 0..100}

\* The grade argument: left out, or a grade.
GradeArgs == {<<>>, <<"P">>}

Construct(optMark, optGrade, rnd) ==
    /\ op' = "Enrollment"
    /\ args' = <<optMark, optGrade>>
    /\ ret' = NewEnrollment(TheStudentId, sample_subjects[1], optMark, optGrade, rnd)
    /\ UNCHANGED <<studentVars, sessionVars, repeatVars, hashVars, storeVars>>

NextEnrollment ==
    \E optMark \in MarkArgs, optGrade \in GradeArgs, rnd \in RandomMarks :
        Construct(optMark, optGrade, rnd)

SpecEnrollment == Init /\ [][NextEnrollment]_vars

\* C19: an Enrollment constructed with a mark m in 0..100 has the mark m, and one
\* constructed without a mark has a mark in 25..100.
C19_SuppliedMarkKept ==
    op = "Enrollment" =>
        IF args[1] # <<>> THEN ret.mark = args[1][1] ELSE ret.mark \in 25..100

(***************************************************************************)
(* The AuthenticationService specification: authenticate_student,          *)
(* get_session and logout on the session table, and Session.invalidate on  *)
(* a session the caller holds, while the clock advances.  The              *)
(* SessionManager's slot is not used.                                      *)
(***************************************************************************)
\* Session.refresh without the is_valid test.
refresh_unconditional(s, t) == [s EXCEPT !.expires_at = t + SessionHours]

\* Session.refresh: a valid session expires SessionHours from now.
refresh(s, t) == IF is_valid(s, t) THEN [s EXCEPT !.expires_at = t + SessionHours] ELSE s

\* Session.invalidate.
invalidate(s) == [s EXCEPT !.is_active = FALSE]

\* get_session that answers for an expired session without purging it.
get_session_keeps_expired(session_id, objs, table, t) ==
    IF session_id \in table /\ is_valid(objs[session_id], t)
    THEN [ret |-> session_id,
          sessions |-> [objs EXCEPT ![session_id] = refresh(@, t)],
          active_sessions |-> table]
    ELSE [ret |-> NoSession, sessions |-> objs, active_sessions |-> table]

\* AuthenticationService.get_session: the session (its id) or NoSession, the Session
\* objects and the table afterwards.
get_session(session_id, objs, table, t) ==
    IF session_id \notin table
    THEN [ret |-> NoSession, sessions |-> objs, active_sessions |-> table]
    ELSE IF is_valid(objs[session_id], t)
         THEN [ret |-> session_id,
               sessions |-> [objs EXCEPT ![session_id] = refresh(@, t)],
               active_sessions |-> table]
         ELSE [ret |-> NoSession,
               sessions |-> objs,
               active_sessions |-> table \ {session_id}]

\* The ids handed to get_session and logout: those of the sessions a run creates and
\* one that no session has.
SessionIdInputs == 1..(MaxSessions + 1)

\* The roster of the AuthenticationService specification.
AuthRoster == <<ann3, ann1>>

InitAuth ==
    /\ IdleStudent /\ IdleRepeat /\ IdleHash /\ IdleStore
    /\ students = AuthRoster
    /\ sessions = <<>>
    /\ active_sessions = {}
    /\ current_session = NoSession
    /\ now = 0
    /\ op = "init"
    /\ args = <<>>
    /\ ret = None

AuthenticateStudent(email, pw) ==
    LET i == authenticate_student(email, pw, students)
        id == Len(sessions) + 1
    IN  /\ op' = "authenticate_student"
        /\ args' = <<email, pw>>
        /\ IF i # 0
           THEN /\ Len(sessions) < MaxSessions
                /\ sessions' = Append(sessions, Session(id, students[i].student_id, STUDENT,
                                                        students[i].name, now))
                /\ active_sessions' = active_sessions \cup {id}
                /\ ret' = id
           ELSE ret' = NoSession /\ UNCHANGED <<sessions, active_sessions>>
        /\ UNCHANGED <<students, current_session, now,
                       studentVars, repeatVars, hashVars, storeVars>>

GetSession(session_id) ==
    LET r == get_session(session_id, sessions, active_sessions, now)
    IN  /\ op' = "get_session"
        /\ args' = <<session_id>>
        /\ sessions' = r.sessions
        /\ active_sessions' = r.active_sessions
        /\ ret' = r.ret
        /\ UNCHANGED <<students, current_session, now,
                       studentVars, repeatVars, hashVars, storeVars>>

AuthLogout(session_id) ==
    LET r == auth_logout(session_id, sessions, active_sessions)
    IN  /\ op' = "auth_logout"
        /\ args' = <<session_id>>
        /\ sessions' = r.sessions
        /\ active_sessions' = r.active_sessions
        /\ ret' = r.ok
        /\ UNCHANGED <<students, current_session, now,
                       studentVars, repeatVars, hashVars, storeVars>>

Invalidate(session_id) ==
    /\ session_id \in 1..Len(sessions)
    /\ op' = "invalidate"
    /\ args' = <<session_id>>
    /\ sessions' = [sessions EXCEPT ![session_id] = invalidate(@)]
    /\ ret' = None
    /\ UNCHANGED <<students, active_sessions, current_session, now,
                   studentVars, repeatVars, hashVars, storeVars>>

NextAuth ==
    \/ \E email \in EmailInputs, pw \in PasswordInputs : AuthenticateStudent(email, pw)
    \/ \E id \in SessionIdInputs : GetSession(id)
    \/ \E id \in SessionIdInputs : AuthLogout(id)
    \/ \E id \in SessionIdInputs : Invalidate(id)
    \/ Tick

SpecAuth == InitAuth /\ [][NextAuth]_vars

\* C18: get_session on a session that is in the table and valid sets its expires_at
\* to now + 24 hours and returns it; on one that is in the table but not valid it
\* removes it from the table and returns nothing; on an id the table does not hold it
\* returns nothing and changes nothing.
C18_GetSessionContract ==
    [][op' = "get_session" =>
          LET id == args'[1]
          IN  IF id \notin active_sessions
              THEN /\ ret' = NoSession
                   /\ sessions' = sessions
                   /\ active_sessions' = active_sessions
              ELSE IF sessions[id].is_active /\ now < sessions[id].expires_at
                   THEN /\ ret' = id
                        /\ sessions'[id].expires_at = now + 24
                        /\ active_sessions' = active_sessions
                   ELSE /\ ret' = NoSession
                        /\ active_sessions' = active_sessions \ {id}]_vars

\* An expired session was purged by the lookup, after another had its expiry moved.
C18_Witness ==
    /\ op = "get_session" /\ ret = NoSession
    /\ Len(sessions) >= 2
    /\ args[1] \in 1..Len(sessions) /\ args[1] \notin active_sessions
    /\ sessions[args[1]].is_active /\ sessions[args[1]].expires_at <= now
    /\ \E j \in 1..Len(sessions) :
          j \in active_sessions /\ sessions[j].expires_at > sessions[j].created_at + 24

(***************************************************************************)
(* ValidationService (src/models/validation.py).  Emails and passwords are *)
(* sequences of one-character strings; a name is a string.                 *)
(***************************************************************************)
UpperChars ==
    {"A", "B", "C", "D", "E", "F", "G", "H", "I", "J", "K", "L", "M", "N",
     "O", "P", "Q", "R", "S", "T", "U", "V", "W", "X", "Y", "Z"}
LowerChars ==
    {"a", "b", "c", "d", "e", "f", "g", "h", "i", "j", "k", "l", "m", "n",
     "o", "p", "q", "r", "s", "t", "u", "v", "w", "x", "y", "z"}
DigitChars == {"0", "1", "2", "3", "4", "5", "6", "7", "8", "9"}
LetterChars == UpperChars \cup LowerChars

\* The class [a-zA-Z0-9._%+-] of the email pattern.
EmailLocalChars == LetterChars \cup DigitChars \cup {".", "_", "%", "+", "-"}

\* The literal "@university.com" of the email pattern.
EmailSuffix == <<"@", "u", "n", "i", "v", "e", "r", "s", "i", "t", "y", ".", "c", "o", "m">>

\* The ends of a match for a pattern that closes with $ (and no MULTILINE flag): the
\* end of the string, or just before a newline that is its last character.
DollarEnds(s) ==
    {Len(s)} \cup (IF s # <<>> /\ s[Len(s)] = "\n" THEN {Len(s) - 1} ELSE {})

\* validate_email: re.match(r'^[a-zA-Z0-9._%+-]+@university\.com$', email).
validate_email(email) ==
    \E n \in DollarEnds(email) :
        /\ n > Len(EmailSuffix)
        /\ SubSeq(email, n - Len(EmailSuffix) + 1, n) = EmailSuffix
        /\ \A i \in 1..(n - Len(EmailSuffix)) : email[i] \in EmailLocalChars

\* validate_password: re.match(r'^[A-Z][a-zA-Z]{4,}\d{3,}$', password); k is the
\* position of the last letter, n the end of the digits.
validate_password(pw) ==
    \E n \in DollarEnds(pw) : \E k \in 5..n :
        /\ pw[1] \in UpperChars
        /\ \A i \in 2..k : pw[i] \in LetterChars
        /\ n - k >= 3
        /\ \A i \in (k + 1)..n : pw[i] \in DigitChars

\* validate_student_registration with the duplicate-email scan made before the
\* password check.
validate_student_registration_dup_first(name, email, pw, existing_students) ==
    IF name = "" \/ email = <<>> \/ pw = <<>>
    THEN [valid |-> FALSE, error |-> "All fields are required!"]
    ELSE IF ~validate_email(email)
    THEN [valid |-> FALSE,
          error |-> "Invalid email format. Must end with @university.com"]
    ELSE IF \E i \in 1..Len(existing_students) : existing_students[i].email = email
    THEN [valid |-> FALSE, error |-> "Email already registered."]
    ELSE IF ~validate_password(pw)
    THEN [valid |-> FALSE,
          error |-> "Invalid password format. Must start with uppercase, have 5+ letters, and 3+ digits."]
    ELSE [valid |-> TRUE, error |-> ""]

\* ValidationService.validate_student_registration.
validate_student_registration(name, email, pw, existing_students) ==
    IF name = "" \/ email = <<>> \/ pw = <<>>
    THEN [valid |-> FALSE, error |-> "All fields are required!"]
    ELSE IF ~validate_email(email)
    THEN [valid |-> FALSE,
          error |-> "Invalid email format. Must end with @university.com"]
    ELSE IF ~validate_password(pw)
    THEN [valid |-> FALSE,
          error |-> "Invalid password format. Must start with uppercase, have 5+ letters, and 3+ digits."]
    ELSE IF \E i \in 1..Len(existing_students) : existing_students[i].email = email
    THEN [valid |-> FALSE, error |-> "Email already registered."]
    ELSE [valid |-> TRUE, error |-> ""]

\* The inputs of the validation specification.
bobEmail == <<"b", "o", "b", "@", "u", "n", "i", "v", "e", "r", "s", "i", "t", "y", ".", "c", "o", "m">>
annEmail == <<"a", "n", "n", "@", "u", "n", "i", "v", "e", "r", "s", "i", "t", "y", ".", "c", "o", "m">>
goodPassword == <<"A", "b", "c", "d", "e", "1", "2", "3">>
otherPassword == <<"Z", "y", "x", "w", "v", "u", "9", "8", "7", "6">>

NameArgs == {"", "Bob"}

\* Well-formed and free, well-formed and registered, a newline at the end, another
\* domain, no local part, a space in the local part, empty.
EmailArgs ==
    {bobEmail, annEmail, bobEmail \o <<"\n">>,
     <<"b", "o", "b", "@", "g", "m", "a", "i", "l", ".", "c", "o", "m">>,
     EmailSuffix,
     <<"b", " ", "b", "@", "u", "n", "i", "v", "e", "r", "s", "i", "t", "y", ".", "c", "o", "m">>,
     <<>>}

\* Well-formed twice, lowercase start, too short, two digits only, four letters only,
\* a letter after the digits, a newline at the end, empty.
PasswordArgs ==
    {goodPassword, otherPassword,
     <<"a", "b", "c", "d", "e", "1", "2", "3">>,
     <<"A", "b", "1">>,
     <<"A", "b", "c", "d", "e", "1", "2">>,
     <<"A", "b", "c", "d", "1", "2", "3">>,
     goodPassword \o <<"x">>,
     goodPassword \o <<"\n">>,
     <<>>}

\* The rosters handed to validate_student_registration; only the emails are read.
registeredAnn == Student("000001", "Ann", annEmail, pwA, saltA)
registeredCat == Student("000002", "Cat", <<"c", "a", "t", "@", "u", "n", "i", "v", "e", "r", "s", "i", "t", "y", ".", "c", "o", "m">>, pwB, saltB)
ValidationRosters == {<<>>, <<registeredAnn>>, <<registeredCat, registeredAnn>>}

(***************************************************************************)
(* The validation specification: validate_student_registration called on   *)
(* a fixed roster.                                                         *)
(***************************************************************************)
InitValidate ==
    /\ IdleStudent /\ IdleRepeat /\ IdleHash /\ IdleStore
    /\ students \in ValidationRosters
    /\ sessions = <<>>
    /\ active_sessions = {}
    /\ current_session = NoSession
    /\ now = 0
    /\ op = "init"
    /\ args = <<>>
    /\ ret = None

ValidateStudentRegistration(name, email, pw) ==
    /\ op' = "validate_student_registration"
    /\ args' = <<name, email, pw>>
    /\ ret' = validate_student_registration(name, email, pw, students)
    /\ UNCHANGED <<studentVars, sessionVars, repeatVars, hashVars, storeVars>>

NextValidate ==
    \E name \in NameArgs, email \in EmailArgs, pw \in PasswordArgs :
        ValidateStudentRegistration(name, email, pw)

SpecValidate == InitValidate /\ [][NextValidate]_vars

\* C11: validate_student_registration checks, in this order, for a blank field, the
\* email format, the password format and a duplicate email, and returns the error of
\* the first check that fails; valid is true, with an empty error, only when all four
\* pass.
C11_ValidationOrder ==
    op = "validate_student_registration" =>
        LET checks == << <<args[1] # "" /\ args[2] # <<>> /\ args[3] # <<>>,
                           "All fields are required!">>,
                         <<validate_email(args[2]),
                           "Invalid email format. Must end with @university.com">>,
                         <<validate_password(args[3]),
                           "Invalid password format. Must start with uppercase, have 5+ letters, and 3+ digits.">>,
                         <<\A i \in 1..Len(students) : students[i].email # args[2],
                           "Email already registered.">> >>
            failed == {i \in 1..4 : ~checks[i][1]}
        IN  /\ ret.valid = (failed = {})
            /\ ret.error = IF failed = {} THEN "" ELSE checks[MinOf(failed)][2]

\* A call with both a bad password and a registered email got the password error.
C11_Witness ==
    /\ op = "validate_student_registration"
    /\ ~validate_password(args[3])
    /\ \E i \in 1..Len(students) : students[i].email = args[2]
    /\ ret.valid = FALSE
    /\ ret.error = "Invalid password format. Must start with uppercase, have 5+ letters, and 3+ digits."

(***************************************************************************)
(* The password specification: Student.change_password on a student that   *)
(* was created with a well-formed password (src/models/student.py).        *)
(* password is the password the stored hash was last made from.            *)
(***************************************************************************)
\* change_password that does not verify the old password.
change_password_skips_old(password_hash, old_password, new_password, salt) ==
    IF ~validate_password(new_password)
    THEN [ok |-> FALSE, password_hash |-> password_hash]
    ELSE [ok |-> TRUE, password_hash |-> hash_password(new_password, salt)]

\* Student.change_password, with the salt hash_password draws: what it returns and
\* the password_hash afterwards.
change_password(password_hash, old_password, new_password, salt) ==
    IF ~verify_password(old_password, password_hash)
    THEN [ok |-> FALSE, password_hash |-> password_hash]
    ELSE IF ~validate_password(new_password)
    THEN [ok |-> FALSE, password_hash |-> password_hash]
    ELSE [ok |-> TRUE, password_hash |-> hash_password(new_password, salt)]

\* The old and new passwords handed to change_password: three well-formed ones, one
\* with a lowercase start, and the empty one.
ChangeArgs ==
    {goodPassword, otherPassword, goodPassword \o <<"\n">>,
     <<"a", "b", "c", "d", "e", "1", "2", "3">>, <<>>}

InitPassword ==
    /\ IdleStudent /\ IdleSession /\ IdleRepeat /\ IdleStore
    /\ password = goodPassword
    /\ stored \in {hash_password(goodPassword, salt) : salt \in Salts}
    /\ op = "init"
    /\ args = <<>>
    /\ ret = None

ChangePassword(old_password, new_password, salt) ==
    LET r == change_password(stored, old_password, new_password, salt)
    IN  /\ stored' = r.password_hash
        /\ password' = IF r.ok THEN new_password ELSE password
        /\ op' = "change_password"
        /\ args' = <<old_password, new_password>>
        /\ ret' = r.ok
        /\ UNCHANGED <<studentVars, sessionVars, repeatVars, storeVars>>

NextPassword ==
    \E old_password \in ChangeArgs, new_password \in ChangeArgs, salt \in Salts :
        ChangePassword(old_password, new_password, salt)

SpecPassword == InitPassword /\ [][NextPassword]_vars

\* C13: change_password returns false and leaves password_hash unchanged unless the
\* old password verifies against the stored hash and the new one passes
\* validate_password; when it returns true the stored hash verifies the new password
\* and, if the new password differs from the old one, no longer verifies the old one.
C13_ChangePasswordContract ==
    [][op' = "change_password" =>
          LET old_password == args'[1]
              new_password == args'[2]
          IN  IF verify_password(old_password, stored) /\ validate_password(new_password)
              THEN /\ ret' = TRUE
                   /\ verify_password(new_password, stored')
                   /\ new_password # old_password => ~verify_password(old_password, stored')
              ELSE ret' = FALSE /\ stored' = stored]_vars

\* The password was changed twice and the last call was refused for a wrong old
\* password although the new one is well-formed.
C13_Witness ==
    /\ op = "change_password" /\ ret = FALSE
    /\ password = goodPassword \o <<"\n">>
    /\ args[1] = goodPassword /\ args[2] = otherPassword

(***************************************************************************)
(* The student-id specification: generate_student_id called again and      *)
(* again, each returned id added to existing_ids before the next call      *)
(* (src/models/validation.py).  One step is one round of its loop.         *)
(***************************************************************************)
\* The upper end of random.randint(1, 999999).
MaxStudentNumber == 999999

\* The width of zfill(6).
StudentIdWidth == 6

\* str(n) for n >= 0: the decimal digits, as characters.
RECURSIVE DecimalDigits(_)
DecimalDigits(n) ==
    LET last == <<HexDigits[(n % 10) + 1]>>
    IN  IF n < 10 THEN last ELSE DecimalDigits(n \div 10) \o last

\* str.zfill(width) of a string without a sign.
RECURSIVE zfill(_, _)
zfill(s, width) == IF Len(s) >= width THEN s ELSE zfill(<<"0">> \o s, width)

\* int(s) for a string of decimal digits.
RECURSIVE ParseDecimal(_)
ParseDecimal(s) ==
    IF s = <<>> THEN 0
    ELSE 10 * ParseDecimal(SubSeq(s, 1, Len(s) - 1))
         + (CHOOSE d \in 0..9 : HexDigits[d + 1] = s[Len(s)])

\* The numbers the model lets random.randint(1, 999999) draw.
id_samples == <<1, MaxStudentNumber, 42, 100000, 7, 4200>>
IdDraws == {id_samples[i] : i \in 1..NumIdDraws}

\* `student_id not in existing_ids` that looks at the last id of the list only.
id_is_new_last_only(student_id, ids) ==
    IF ids = <<>> THEN TRUE ELSE ids[Len(ids)] # student_id

\* `student_id not in existing_ids` that finds every id in the list.
id_is_new_never(student_id, ids) == student_id \in {} /\ ids = <<>>

\* student_id not in existing_ids.
id_is_new(student_id, ids) == \A i \in 1..Len(ids) : ids[i] # student_id

\* A round of the loop whose draw is taken already: the loop goes round again.
DrawAgain(n) ==
    /\ ~id_is_new(zfill(DecimalDigits(n), StudentIdWidth), existing_ids)
    /\ op' = "generate_student_id: retry"
    /\ args' = <<existing_ids>>
    /\ ret' = <<>>
    /\ UNCHANGED <<studentVars, sessionVars, repeatVars, hashVars, storeVars>>

\* The round that returns; the caller adds the id to the list.
GenerateStudentId(n) ==
    LET student_id == zfill(DecimalDigits(n), StudentIdWidth)
    IN  /\ id_is_new(student_id, existing_ids)
        /\ op' = "generate_student_id"
        /\ args' = <<existing_ids>>
        /\ ret' = student_id
        /\ existing_ids' = Append(existing_ids, student_id)
        /\ UNCHANGED <<studentVars, sessionVars, repeatVars, hashVars, file>>

NextIds ==
    \/ \E n \in IdDraws : DrawAgain(n)
    \/ \E n \in IdDraws : GenerateStudentId(n)

SpecIds == Init /\ [][NextIds]_vars

\* C12: generate_student_id never returns an id of existing_ids, and with every
\* returned id added to the list, the returned ids are pairwise distinct strings of
\* six decimal digits that read as a number in 1..999999.
C12_FreshSixDigitIds ==
    /\ [][op' = "generate_student_id" =>
             \A i \in 1..Len(existing_ids) : existing_ids[i] # ret']_vars
    /\ [](/\ \A i, j \in 1..Len(existing_ids) :
                i # j => existing_ids[i] # existing_ids[j]
          /\ \A i \in 1..Len(existing_ids) :
                /\ Len(existing_ids[i]) = 6
                /\ \A k \in 1..6 : existing_ids[i][k] \in DigitChars
                /\ ParseDecimal(existing_ids[i]) \in 1..999999)

\* Three ids were returned, the smallest and the largest among them.
C12_Witness ==
    /\ op = "generate_student_id"
    /\ Len(existing_ids) = 3
    /\ <<"0", "0", "0", "0", "0", "1">> \in {existing_ids[i] : i \in 1..3}
    /\ ret = <<"9", "9", "9", "9", "9", "9">>

(***************************************************************************)
(* The Admin specification: remove_student and clear_all on a roster whose *)
(* students hold enrollments (src/models/admin.py).                        *)
(***************************************************************************)
\* A Student object with its enrollments list.
EnrolledStudent(student, enrs) ==
    [student_id    |-> student.student_id,
     name          |-> student.name,
     email         |-> student.email,
     password_hash |-> student.password_hash,
     enrollments   |-> enrs]

\* remove_student that deletes every student with the id.
remove_student_all_matches(student_id, roster) ==
    LET found == {i \in 1..Len(roster) : roster[i].student_id = student_id}
    IN  [ok |-> found # {},
         students |-> SelectSeq(roster, LAMBDA s : s.student_id # student_id)]

\* Admin.remove_student: deletes the first student with the id.
remove_student(student_id, roster) ==
    LET found == {i \in 1..Len(roster) : roster[i].student_id = student_id}
    IN  IF found = {}
        THEN [ok |-> FALSE, students |-> roster]
        ELSE LET i == MinOf(found)
             IN  [ok |-> TRUE,
                  students |-> SubSeq(roster, 1, i - 1) \o SubSeq(roster, i + 1, Len(roster))]

\* Admin.clear_all.
clear_all(roster) == [ok |-> TRUE, students |-> <<>>]

\* The students of the Admin rosters: two share a student_id, and they hold
\* different enrollment lists.
adminAnn  == EnrolledStudent(ann1, <<NewEnrollment("000001", "101", <<>>, <<>>, 25)>>)
adminTwin ==
    EnrolledStudent(Student("000001", "Twin", "twin@university.com", pwB, saltB),
                    <<NewEnrollment("000001", "102", <<>>, <<>>, 100),
                      NewEnrollment("000001", "101", <<>>, <<>>, 25)>>)
adminAnna == EnrolledStudent(ann2, <<>>)
adminBob  == EnrolledStudent(bob, <<NewEnrollment("000004", "201", <<>>, <<>>, 100)>>)

AdminRosters ==
    UNION {[1..n -> {adminAnn, adminTwin, adminAnna, adminBob}] : n \in 0..MaxRosterLen}

\* The ids handed to remove_student: three that students hold and one that none holds.
StudentIdInputs == {"000001", "000002", "000004", "999999"}

InitAdmin ==
    /\ IdleStudent /\ IdleRepeat /\ IdleHash /\ IdleStore
    /\ students \in AdminRosters
    /\ sessions = <<>>
    /\ active_sessions = {}
    /\ current_session = NoSession
    /\ now = 0
    /\ op = "init"
    /\ args = <<>>
    /\ ret = None

RemoveStudent(student_id) ==
    LET r == remove_student(student_id, students)
    IN  /\ students' = r.students
        /\ op' = "remove_student"
        /\ args' = <<student_id>>
        /\ ret' = r.ok
        /\ UNCHANGED <<sessions, active_sessions, current_session, now,
                       studentVars, repeatVars, hashVars, storeVars>>

ClearAll ==
    LET r == clear_all(students)
    IN  /\ students' = r.students
        /\ op' = "clear_all"
        /\ args' = <<>>
        /\ ret' = r.ok
        /\ UNCHANGED <<sessions, active_sessions, current_session, now,
                       studentVars, repeatVars, hashVars, storeVars>>

NextAdmin ==
    \/ \E student_id \in StudentIdInputs : RemoveStudent(student_id)
    \/ ClearAll

SpecAdmin == InitAdmin /\ [][NextAdmin]_vars

\* C15: remove_student returns true exactly when a student with the id is in the
\* roster; it then deletes only the first such student and leaves every other
\* student, with their enrollments, in place and in order; when it returns false the
\* roster is unchanged.  clear_all leaves the roster empty and returns true.
C15_AdminRemovalContract ==
    [][/\ op' = "remove_student" =>
             LET found == {i \in 1..Len(students) : students[i].student_id = args'[1]}
             IN  /\ ret' = (found # {})
                 /\ IF found = {}
                    THEN students' = students
                    ELSE /\ Len(students') = Len(students) - 1
                         /\ \A i \in 1..Len(students') :
                               students'[i] = IF i < MinOf(found) THEN students[i]
                                              ELSE students[i + 1]
       /\ op' = "clear_all" => ret' = TRUE /\ students' = <<>>]_vars

\* The first of two students with the same id was removed and the second one, with
\* its two enrollments, is still there.
C15_Witness ==
    /\ op = "remove_student" /\ ret = TRUE
    /\ args[1] = "000001"
    /\ Len(students) = 2
    /\ students[1] = adminBob /\ students[2] = adminTwin

(***************************************************************************)
(* DataManager (src/data_manager.py).  A datetime is a count of hours,     *)
(* written by isoformat as its decimal digits.  A JSON document is the     *)
(* value it encodes with every number written as its digits and every      *)
(* string marked as a string.                                              *)
(***************************************************************************)
\* datetime.isoformat and datetime.fromisoformat.
isoformat(t) == DecimalDigits(t)
fromisoformat(s) == ParseDecimal(s)

\* An Enrollment object with its enrollment_date.
DatedEnrollment(e, t) ==
    [student_id |-> e.student_id, subject_id |-> e.subject_id,
     mark |-> e.mark, grade |-> e.grade, enrollment_date |-> t]

\* save_data, lines 23-44: the students_data list of dicts.
students_data(roster) ==
    [i \in 1..Len(roster) |->
        [student_id    |-> roster[i].student_id,
         name          |-> roster[i].name,
         email         |-> roster[i].email,
         password_hash |-> roster[i].password_hash,
         enrollments   |->
            [j \in 1..Len(roster[i].enrollments) |->
                LET e == roster[i].enrollments[j]
                IN  [student_id      |-> e.student_id,
                     subject_id      |-> e.subject_id,
                     mark            |-> e.mark,
                     grade           |-> e.grade,
                     enrollment_date |-> isoformat(e.enrollment_date)]]]]

\* json.dump of a non-negative int and of a str.
JsonNumber(n) == [num |-> DecimalDigits(n)]
JsonString(s) == [str |-> s]

\* json.dump of the list of student dicts.
json_dump(data) ==
    [i \in 1..Len(data) |->
        [k \in DOMAIN data[i] |->
            IF k = "enrollments"
            THEN [j \in 1..Len(data[i].enrollments) |->
                     [f \in DOMAIN data[i].enrollments[j] |->
                         IF f = "mark" THEN JsonNumber(data[i].enrollments[j][f])
                         ELSE JsonString(data[i].enrollments[j][f])]]
            ELSE JsonString(data[i][k])]]

\* json.load of a document that holds a list of student dicts.
JsonValue(v) == IF "num" \in DOMAIN v THEN ParseDecimal(v.num) ELSE v.str

json_load(doc) ==
    [i \in 1..Len(doc) |->
        [k \in DOMAIN doc[i] |->
            IF k = "enrollments"
            THEN [j \in 1..Len(doc[i].enrollments) |->
                     [f \in DOMAIN doc[i].enrollments[j] |->
                         JsonValue(doc[i].enrollments[j][f])]]
            ELSE JsonValue(doc[i][k])]]

\* The file after a write that went through.
Written(doc) == [state |-> "written", data |-> doc]

\* The file after a write that broke off after open() had truncated it.
Garbled == [state |-> "garbled", data |-> <<>>]

\* What a write may do to the file f: "ok" writes the document, "refused" fails in
\* open() and leaves the file alone, "partial" fails after the truncation.
WriteOutcomes == {"ok", "refused", "partial"}

write_file(f, doc, outcome) ==
    CASE outcome = "ok"      -> Written(doc)
      [] outcome = "refused" -> f
      [] outcome = "partial" -> Garbled

\* save_data that leaves the last student of the roster out.
save_data_drops_last(roster, f, outcome) ==
    [ok   |-> outcome = "ok",
     file |-> write_file(f, json_dump(students_data(SubSeq(roster, 1, Len(roster) - 1))),
                         outcome)]

\* DataManager.save_data: what it returns and the file afterwards.
save_data(roster, f, outcome) ==
    [ok   |-> outcome = "ok",
     file |-> write_file(f, json_dump(students_data(roster)), outcome)]

\* DataManager.clear_data.
clear_data(f, outcome) ==
    [ok |-> outcome = "ok", file |-> write_file(f, <<>>, outcome)]

\* dict.get(key, default).
DictGet(d, key, default) == IF key \in DOMAIN d THEN d[key] ELSE default

\* load_data, lines 67-91 for one student dict; rnd is what random.randint draws in the
\* Enrollment constructor, should it draw.
load_student(d, rnd) ==
    LET password_hash == IF DictGet(d, "password_hash", <<>>) # <<>>
                         THEN d.password_hash
                         ELSE DictGet(d, "password", <<>>)
    IN  [student_id    |-> d.student_id,
         name          |-> d.name,
         email         |-> d.email,
         password_hash |-> password_hash,
         enrollments   |->
            [j \in 1..Len(d.enrollments) |->
                LET x == d.enrollments[j]
                IN  DatedEnrollment(NewEnrollment(x.student_id, x.subject_id,
                                                  <<x.mark>>, <<x.grade>>, rnd),
                                    fromisoformat(x.enrollment_date))]]

\* DataManager.load_data: no file gives the empty list, and so does a file that
\* json.load cannot read (the exception is caught).
load_data(f, rnd) ==
    IF f.state # "written" THEN <<>>
    ELSE LET data == json_load(f.data)
         IN  [i \in 1..Len(data) |-> load_student(data[i], rnd)]

(***************************************************************************)
(* The persistence specification: save_data and load_data on a roster      *)
(* whose marks lie in 0..100.                                              *)
(***************************************************************************)
\* The marks of the stored enrollments: both ends of 0..100 and two marks between.
StoredMarks == {0, 1, 50, 100}

\* The enrollment records of the saved student: every stored mark with the grade of
\* the mark or another grade, made at hour 0 or at hour 12.
StoredEnrollments ==
    UNION {{[student_id |-> "000001", subject_id |-> "101", mark |-> m, grade |-> g,
             enrollment_date |-> t] :
               g \in {"HD", calculate_grade(m)}, t \in {0, TickHours}} :
           m \in StoredMarks}

StoreRosters ==
    LET lists == UNION {[1..n -> StoredEnrollments] : n \in 0..MaxStoredEnrollments}
    IN  {<<>>} \cup {<<EnrolledStudent(ann1, enrs)>> : enrs \in lists}
               \cup {<<adminAnna, EnrolledStudent(ann1, enrs)>> : enrs \in lists}

InitStore ==
    /\ IdleStudent /\ IdleRepeat /\ IdleHash /\ IdleStore
    /\ students \in StoreRosters
    /\ sessions = <<>>
    /\ active_sessions = {}
    /\ current_session = NoSession
    /\ now = 0
    /\ op = "init"
    /\ args = <<>>
    /\ ret = None

SaveData(outcome) ==
    LET r == save_data(students, file, outcome)
    IN  /\ file' = r.file
        /\ op' = "save_data"
        /\ args' = <<>>
        /\ ret' = r.ok
        /\ UNCHANGED <<studentVars, sessionVars, repeatVars, hashVars, existing_ids>>

LoadData(rnd) ==
    /\ op' = "load_data"
    /\ args' = <<>>
    /\ ret' = load_data(file, rnd)
    /\ UNCHANGED <<studentVars, sessionVars, repeatVars, hashVars, storeVars>>

NextStore ==
    \/ \E outcome \in WriteOutcomes : SaveData(outcome)
    \/ \E rnd \in RandomMarks : LoadData(rnd)

SpecStore == InitStore /\ [][NextStore]_vars

\* C17: for a roster whose marks are integers in 0..100, load_data after a successful
\* save_data returns the same students in the same order, each with the same
\* student_id, name, email, password_hash and the same enrollments in order, with
\* identical subject_id, mark, grade and enrollment_date.
C17_SaveLoadRoundTrip ==
    op = "load_data" /\ file.state = "written" => ret = students

(***************************************************************************)
(* CLIUniApp (src/cli_app.py): the handlers of the menus that change the   *)
(* roster, with login and logout.  The student handlers run from the       *)
(* course menu, which is open while a student session is current; the      *)
(* registration and the admin handlers run from the menus outside it.      *)
(* Inputs are taken as typed, already stripped.  The clock stands still.   *)
(***************************************************************************)
\* email.endswith("@university.com").
cli_valid_email(email) ==
    /\ Len(email) >= Len(EmailSuffix)
    /\ SubSeq(email, Len(email) - Len(EmailSuffix) + 1, Len(email)) = EmailSuffix

\* The password test of _student_registration and _student_login.
cli_valid_password(pw) ==
    /\ Len(pw) >= 8
    /\ pw[1] \in UpperChars
    /\ Cardinality({i \in 1..Len(pw) : pw[i] \in DigitChars}) >= 3
    /\ Cardinality({i \in 1..Len(pw) : pw[i] \in LetterChars}) >= 5

\* _get_current_student: the index in the roster of the student of the current
\* session, 0 for None.
get_current_student(cur, objs, t, roster) ==
    LET session == get_current_session(cur, objs, t).ret
        found == IF session = NoSession \/ objs[session].user_role # STUDENT THEN {}
                 ELSE {i \in 1..Len(roster) : roster[i].student_id = objs[session].user_id}
    IN  IF found = {} THEN 0 ELSE MinOf(found)

\* The Enrollment that enroll constructs for the student student_id at time t.
StampLast(enrs, student_id, t) ==
    [enrs EXCEPT ![Len(enrs)] = DatedEnrollment([@ EXCEPT !.student_id = student_id], t)]

\* self.subjects.
cli_subjects == SubSeq(sample_subjects, 1, NumCliSubjects)

\* The student of the students.data file that the CLI may start with.
cliAnn ==
    EnrolledStudent(
        Student(zfill(DecimalDigits(1), StudentIdWidth), "Ann", annEmail, goodPassword, saltA),
        <<DatedEnrollment(NewEnrollment(zfill(DecimalDigits(1), StudentIdWidth), "101",
                                        <<>>, <<>>, 100), 0)>>)

\* The students.data files the CLI may start with: none, or one written by save_data.
CliFiles == {NoFile, save_data(<<cliAnn>>, NoFile, "ok").file}

\* What is typed at the prompts.
CliEmails == {bobEmail, annEmail, <<"b", "o", "b">>}
CliPasswords == {goodPassword, otherPassword, <<"A", "b", "1">>}
CliIdDraws == {1, MaxStudentNumber}
CliStudentIds == {zfill(DecimalDigits(n), StudentIdWidth) : n \in CliIdDraws}
CliSubjectIds == {sample_subjects[i] : i \in 1..(NumCliSubjects + 1)}

\* What a handler reports: whether save_data or clear_data ran and returned True.
Report(saved) == [saved |-> saved]

InitCLI ==
    /\ IdleStudent /\ IdleHash
    /\ file \in CliFiles
    /\ \E rnd \in RandomMarks : students = load_data(file, rnd)
    /\ existing_ids = <<>>
    /\ sessions = <<>>
    /\ active_sessions = {}
    /\ current_session = NoSession
    /\ now = 0
    /\ catalog = <<>> /\ calls = 0 /\ firstNone = 0
    /\ op = "init"
    /\ args = <<>>
    /\ ret = None

\* A handler was run: the count of handlers goes up, the rest stays.
CliFrame ==
    /\ calls < MaxCliCalls
    /\ calls' = calls + 1
    /\ args' = <<>>
    /\ UNCHANGED <<catalog, firstNone, now, existing_ids, studentVars, hashVars>>

\* _student_registration, one pass of its prompt loop; n is the number that
\* generate_student_id draws in the round that returns.
Register(email, pw, name, n, outcome) ==
    LET student_id == zfill(DecimalDigits(n), StudentIdWidth)
        ids == [i \in 1..Len(students) |-> students[i].student_id]
        roster == Append(students,
                         EnrolledStudent(Student(student_id, name, email, pw, saltA), <<>>))
        r == save_data(roster, file, outcome)
    IN  /\ current_session = NoSession
        /\ CliFrame
        /\ op' = "register"
        /\ IF \/ ~cli_valid_email(email)
              \/ ~cli_valid_password(pw)
              \/ \E i \in 1..Len(students) : students[i].email = email
           THEN ret' = Report(FALSE) /\ UNCHANGED <<students, file>>
           ELSE /\ id_is_new(student_id, ids)
                /\ students' = roster
                /\ file' = r.file
                /\ ret' = Report(r.ok)
        /\ UNCHANGED <<sessions, active_sessions, current_session>>

\* _student_login, one pass of its prompt loop; a successful login opens the course
\* menu.
StudentLogin(email, pw) ==
    LET i == IF cli_valid_email(email) /\ cli_valid_password(pw)
             THEN authenticate_student(email, pw, students) ELSE 0
        id == Len(sessions) + 1
    IN  /\ current_session = NoSession
        /\ CliFrame
        /\ op' = "student_login"
        /\ ret' = Report(FALSE)
        /\ IF i # 0
           THEN /\ Len(sessions) < MaxSessions
                /\ sessions' = Append(sessions, Session(id, students[i].student_id, STUDENT,
                                                        students[i].name, now))
                /\ active_sessions' = active_sessions \cup {id}
                /\ current_session' = id
           ELSE UNCHANGED <<sessions, active_sessions, current_session>>
        /\ UNCHANGED <<students, file>>

\* The condition of the course menu's loop: is_logged_in() and a student role.
CourseMenuOpen ==
    LET session == get_current_session(current_session, sessions, now).ret
    IN  session # NoSession /\ sessions[session].user_role = STUDENT

\* Choice x of the course menu.
CourseMenuLogout ==
    LET r == auth_logout(current_session, sessions, active_sessions)
    IN  /\ CourseMenuOpen
        /\ CliFrame
        /\ op' = "logout"
        /\ ret' = Report(FALSE)
        /\ sessions' = r.sessions
        /\ active_sessions' = r.active_sessions
        /\ current_session' = NoSession
        /\ UNCHANGED <<students, file>>

\* _enroll_subject.
EnrollSubject(pick, rnd, outcome) ==
    LET i == get_current_student(current_session, sessions, now, students)
    IN  /\ CourseMenuOpen
        /\ CliFrame
        /\ op' = "enroll_subject"
        /\ IF i = 0
           THEN ret' = Report(FALSE) /\ UNCHANGED <<students, file>>
           ELSE IF Len(students[i].enrollments) >= 4
           THEN ret' = Report(FALSE) /\ UNCHANGED <<students, file>>
           ELSE LET e == enroll_random(students[i].enrollments, cli_subjects, pick, rnd)
                    roster == [students EXCEPT ![i].enrollments =
                                  StampLast(e.enrollments, students[i].student_id, now)]
                    r == save_data(roster, file, outcome)
                IN  /\ pick \in Picks(students[i].enrollments, cli_subjects)
                    /\ IF e.ret # None
                       THEN students' = roster /\ file' = r.file /\ ret' = Report(r.ok)
                       ELSE ret' = Report(FALSE) /\ UNCHANGED <<students, file>>
        /\ UNCHANGED <<sessions, active_sessions, current_session>>

\* _remove_subject.
RemoveSubjectChoice(subject_id, outcome) ==
    LET i == get_current_student(current_session, sessions, now, students)
    IN  /\ CourseMenuOpen
        /\ CliFrame
        /\ op' = "remove_subject_choice"
        /\ IF i = 0
           THEN ret' = Report(FALSE) /\ UNCHANGED <<students, file>>
           ELSE LET e == remove_subject(students[i].enrollments, subject_id)
                    roster == [students EXCEPT ![i].enrollments = e.enrollments]
                    r == save_data(roster, file, outcome)
                IN  IF /\ students[i].enrollments # <<>>
                       /\ subject_id \in EnrolledIds(students[i].enrollments)
                       /\ e.ok
                    THEN students' = roster /\ file' = r.file /\ ret' = Report(r.ok)
                    ELSE ret' = Report(FALSE) /\ UNCHANGED <<students, file>>
        /\ UNCHANGED <<sessions, active_sessions, current_session>>

\* _change_password.
ChangePasswordChoice(new_password, confirm_password, outcome) ==
    LET i == get_current_student(current_session, sessions, now, students)
    IN  /\ CourseMenuOpen
        /\ CliFrame
        /\ op' = "change_password_choice"
        /\ IF i = 0
           THEN ret' = Report(FALSE) /\ UNCHANGED <<students, file>>
           ELSE LET roster == [students EXCEPT ![i].password_hash =
                                  hash_password(new_password, saltB)]
                    r == save_data(roster, file, outcome)
                IN  IF new_password = confirm_password /\ validate_password(new_password)
                    THEN students' = roster /\ file' = r.file /\ ret' = Report(r.ok)
                    ELSE ret' = Report(FALSE) /\ UNCHANGED <<students, file>>
        /\ UNCHANGED <<sessions, active_sessions, current_session>>

\* _remove_student.
RemoveStudentChoice(student_id, outcome) ==
    LET e == remove_student(student_id, students)
        r == save_data(e.students, file, outcome)
    IN  /\ current_session = NoSession
        /\ CliFrame
        /\ op' = "remove_student_choice"
        /\ students' = e.students
        /\ IF e.ok
           THEN file' = r.file /\ ret' = Report(r.ok)
           ELSE ret' = Report(FALSE) /\ UNCHANGED file
        /\ UNCHANGED <<sessions, active_sessions, current_session>>

\* _clear_all_data.
ClearAllData(confirm, outcome) ==
    LET e == clear_all(students)
        r == clear_data(file, outcome)
    IN  /\ current_session = NoSession
        /\ CliFrame
        /\ op' = "clear_all_data"
        /\ IF confirm = "y"
           THEN /\ students' = e.students
                /\ IF e.ok
                   THEN file' = r.file /\ ret' = Report(r.ok)
                   ELSE ret' = Report(FALSE) /\ UNCHANGED file
           ELSE ret' = Report(FALSE) /\ UNCHANGED <<students, file>>
        /\ UNCHANGED <<sessions, active_sessions, current_session>>

NextCLI ==
    \/ \E email \in CliEmails, pw \in CliPasswords, n \in CliIdDraws,
          outcome \in WriteOutcomes : Register(email, pw, "Bob", n, outcome)
    \/ \E email \in CliEmails, pw \in CliPasswords : StudentLogin(email, pw)
    \/ CourseMenuLogout
    \/ \E pick \in 1..NumCliSubjects, rnd \in RandomMarks, outcome \in WriteOutcomes :
          EnrollSubject(pick, rnd, outcome)
    \/ \E subject_id \in CliSubjectIds, outcome \in WriteOutcomes :
          RemoveSubjectChoice(subject_id, outcome)
    \/ \E new_password \in CliPasswords, confirm_password \in CliPasswords,
          outcome \in WriteOutcomes :
          ChangePasswordChoice(new_password, confirm_password, outcome)
    \/ \E student_id \in CliStudentIds, outcome \in WriteOutcomes :
          RemoveStudentChoice(student_id, outcome)
    \/ \E confirm \in {"y", "n"}, outcome \in WriteOutcomes : ClearAllData(confirm, outcome)

SpecCLI == InitCLI /\ [][NextCLI]_vars

\* The handlers of the CLI that change the roster.
CliMutatingOps ==
    {"register", "enroll_subject", "remove_subject_choice", "change_password_choice",
     "remove_student_choice", "clear_all_data"}

\* C16: after every mutating handler of the CLI that completes and whose file write
\* succeeds, the students.data file holds the serialization of the whole in-memory
\* roster.
C16_StoreMatchesRoster ==
    [][op' \in CliMutatingOps /\ ret'.saved =>
          /\ file'.state = "written"
          /\ file'.data = json_dump(students_data(students'))]_vars

\* A second student was registered and saved while the first holds two enrollments.
C16_Witness ==
    /\ op = "register" /\ ret.saved
    /\ Len(students) = 2
    /\ Len(students[1].enrollments) = 2
    /\ file.state = "written"

(***************************************************************************)
(* Admin views over the roster: view_by_grade and categorize_pass_fail     *)
(* (src/models/admin.py).                                                  *)
(***************************************************************************)
\* The dict that both views append for one enrollment of one student,
\* without the 'status' key of categorize_pass_fail.
grade_info(student, enrollment) ==
    [student_id |-> student.student_id,
     name       |-> student.name,
     subject_id |-> enrollment.subject_id,
     mark       |-> DecimalDigits(enrollment.mark),
     grade      |-> enrollment.grade]

\* The enrollments of the roster in the order of the two nested loops
\* (for student in students: for enrollment in student.enrollments), each
\* with its student.
RECURSIVE roster_pairs(_)
roster_pairs(roster) ==
    IF roster = <<>> THEN <<>>
    ELSE LET student == Head(roster)
         IN  [j \in 1..Len(student.enrollments) |->
                  [student |-> student, enrollment |-> student.enrollments[j]]]
             \o roster_pairs(Tail(roster))

\* The pairs that a loop over pairs appends for: those of the set passing,
\* in the order of the loop.
appended(pairs, passing) == SelectSeq(pairs, LAMBDA p : p \in passing)

\* view_by_grade that files an enrollment under the grade of its mark.
view_by_grade_by_mark(roster) ==
    LET pairs == roster_pairs(roster)
    IN  [g \in Grades |->
            LET kept == appended(pairs, {p \in {pairs[k] : k \in 1..Len(pairs)} :
                                           calculate_grade(p.enrollment.mark) = g})
            IN  [k \in 1..Len(kept) |-> grade_info(kept[k].student, kept[k].enrollment)]]

\* Admin.view_by_grade: grade_groups has the five keys, and an enrollment
\* is appended to grade_groups[enrollment.grade] if that is a key.
view_by_grade(roster) ==
    LET pairs == roster_pairs(roster)
    IN  [g \in Grades |->
            LET kept == appended(pairs, {p \in {pairs[k] : k \in 1..Len(pairs)} :
                                           p.enrollment.grade \in Grades
                                           /\ p.enrollment.grade = g})
            IN  [k \in 1..Len(kept) |-> grade_info(kept[k].student, kept[k].enrollment)]]

PassMark == 50

\* The row of categorize_pass_fail: the grade_info keys and 'status'.
status_info(student, enrollment, status) ==
    [student_id |-> student.student_id,
     name       |-> student.name,
     subject_id |-> enrollment.subject_id,
     mark       |-> DecimalDigits(enrollment.mark),
     grade      |-> enrollment.grade,
     status     |-> status]

\* categorize_pass_fail that passes a mark only above 50.
categorize_pass_fail_above(roster) ==
    LET pairs == roster_pairs(roster)
        all == {pairs[k] : k \in 1..Len(pairs)}
        passed == appended(pairs, {p \in all : p.enrollment.mark > PassMark})
        failed == appended(pairs, {p \in all : ~(p.enrollment.mark > PassMark)})
    IN  [PASS |-> [k \in 1..Len(passed) |->
                      status_info(passed[k].student, passed[k].enrollment, "PASS")],
         FAIL |-> [k \in 1..Len(failed) |->
                      status_info(failed[k].student, failed[k].enrollment, "FAIL")]]

\* Admin.categorize_pass_fail: mark >= 50 appends to pass_students,
\* everything else to fail_students.
categorize_pass_fail(roster) ==
    LET pairs == roster_pairs(roster)
        all == {pairs[k] : k \in 1..Len(pairs)}
        passed == appended(pairs, {p \in all : p.enrollment.mark >= PassMark})
        failed == appended(pairs, {p \in all : ~(p.enrollment.mark >= PassMark)})
    IN  [PASS |-> [k \in 1..Len(passed) |->
                      status_info(passed[k].student, passed[k].enrollment, "PASS")],
         FAIL |-> [k \in 1..Len(failed) |->
                      status_info(failed[k].student, failed[k].enrollment, "FAIL")]]

\* The students of the viewed rosters.  viewAnn holds the marks on both
\* sides of 50, viewBob one mark of each passing band, viewCat enrollments
\* constructed with a grade that is not the grade of the mark, viewDan
\* none, and viewTwin the same student as viewAnn with the same enrollment
\* twice.
viewAnn ==
    EnrolledStudent(ann1, <<NewEnrollment("000001", "101", <<>>, <<>>, 49),
                            NewEnrollment("000001", "102", <<>>, <<>>, 50)>>)
viewBob ==
    EnrolledStudent(bob, <<NewEnrollment("000004", "201", <<>>, <<>>, 100),
                           NewEnrollment("000004", "101", <<>>, <<>>, 70),
                           NewEnrollment("000004", "102", <<>>, <<>>, 80),
                           NewEnrollment("000004", "301", <<>>, <<>>, 55)>>)
viewCat ==
    EnrolledStudent(Student("000005", "Cat", "cat@university.com", pwB, saltB),
                    <<NewEnrollment("000005", "101", <<30>>, <<"HD">>, 25),
                      NewEnrollment("000005", "102", <<90>>, <<"Z">>, 25)>>)
viewDan == EnrolledStudent(ann2, <<>>)
viewTwin ==
    EnrolledStudent(ann1, <<NewEnrollment("000001", "101", <<>>, <<>>, 49),
                            NewEnrollment("000001", "101", <<>>, <<>>, 49)>>)

ViewRosters ==
    UNION {[1..n -> {viewAnn, viewBob, viewCat, viewDan, viewTwin}] : n \in 0..MaxRosterLen}

InitViews ==
    /\ IdleStudent /\ IdleRepeat /\ IdleHash /\ IdleStore
    /\ students \in ViewRosters
    /\ sessions = <<>>
    /\ active_sessions = {}
    /\ current_session = NoSession
    /\ now = 0
    /\ op = "init"
    /\ args = <<>>
    /\ ret = None

\* The views return their dict and assign nothing of the roster.
ViewByGrade ==
    /\ op' = "view_by_grade"
    /\ args' = <<students>>
    /\ ret' = view_by_grade(students)
    /\ UNCHANGED <<students, sessions, active_sessions, current_session, now,
                   studentVars, repeatVars, hashVars, storeVars>>

CategorizePassFail ==
    /\ op' = "categorize_pass_fail"
    /\ args' = <<students>>
    /\ ret' = categorize_pass_fail(students)
    /\ UNCHANGED <<students, sessions, active_sessions, current_session, now,
                   studentVars, repeatVars, hashVars, storeVars>>

NextViews ==
    \/ ViewByGrade
    \/ CategorizePassFail

SpecViews == InitViews /\ [][NextViews]_vars

\* The (student, enrollment) pairs of a roster, by position.
PairsOf(roster) ==
    UNION {{<<i, j>> : j \in 1..Len(roster[i].enrollments)} : i \in 1..Len(roster)}

EnrollmentAt(roster, p) == roster[p[1]].enrollments[p[2]]

\* How often a row stands in a list.
Occurrences(rows, row) == Cardinality({k \in 1..Len(rows) : rows[k] = row})

\* C21: view_by_grade returns the five buckets Z, P, C, D, HD; every row of
\* a bucket carries the bucket's grade; the row of every (student,
\* enrollment) pair stands in the bucket of the enrollment's grade as often
\* as the roster holds pairs with that row; the bucket sizes sum to the
\* number of enrollments of the roster; and the call leaves the roster as
\* it was.
C21_ViewByGradePartition ==
    [][op' = "view_by_grade" =>
          /\ students' = students
          /\ DOMAIN ret' = {"Z", "P", "C", "D", "HD"}
          /\ \A g \in DOMAIN ret' : \A k \in 1..Len(ret'[g]) : ret'[g][k].grade = g
          /\ \A p \in PairsOf(students) :
                LET row == grade_info(students[p[1]], EnrollmentAt(students, p))
                IN  Occurrences(ret'[EnrollmentAt(students, p).grade], row)
                    = Cardinality({q \in PairsOf(students) :
                          grade_info(students[q[1]], EnrollmentAt(students, q)) = row})
          /\ Len(ret'["Z"]) + Len(ret'["P"]) + Len(ret'["C"]) + Len(ret'["D"])
             + Len(ret'["HD"]) = Cardinality(PairsOf(students))]_vars

\* A view of a roster in which all five grades occur, one of them on an
\* enrollment whose grade is not the grade of its mark, and one row twice.
C21_Witness ==
    /\ op = "view_by_grade"
    /\ \A g \in Grades : ret[g] # <<>>
    /\ \E k \in 1..Len(ret["HD"]) : ret["HD"][k].mark = <<"3", "0">>
    /\ Len(ret["Z"]) >= 2 /\ ret["Z"][1] = ret["Z"][2]

\* The row of categorize_pass_fail without its status.
WithoutStatus(r) ==
    [student_id |-> r.student_id, name |-> r.name, subject_id |-> r.subject_id,
     mark |-> r.mark, grade |-> r.grade]

\* Whether every enrollment of the roster has the grade of its mark.
GradesDerived(roster) ==
    \A p \in PairsOf(roster) :
        EnrollmentAt(roster, p).grade = calculate_grade(EnrollmentAt(roster, p).mark)

\* C22: categorize_pass_fail returns a PASS and a FAIL list; the row of
\* every (student, enrollment) pair stands in PASS if the mark is at least
\* 50 and in FAIL otherwise, as often as the roster holds pairs with that
\* row, and in the other list no row has its mark on that side of 50; the
\* two lists together have as many rows as the roster has enrollments; and
\* for a roster whose grades are all derived from the marks the FAIL rows
\* are, status aside, the Z bucket of view_by_grade.
C22_PassFailPartition ==
    op = "categorize_pass_fail" =>
       /\ DOMAIN ret = {"PASS", "FAIL"}
       /\ \A k \in 1..Len(ret.PASS) :
             ret.PASS[k].status = "PASS" /\ ParseDecimal(ret.PASS[k].mark) >= 50
       /\ \A k \in 1..Len(ret.FAIL) :
             ret.FAIL[k].status = "FAIL" /\ ParseDecimal(ret.FAIL[k].mark) < 50
       /\ \A p \in PairsOf(students) :
             LET e == EnrollmentAt(students, p)
                 status == IF e.mark >= 50 THEN "PASS" ELSE "FAIL"
                 row == status_info(students[p[1]], e, status)
             IN  Occurrences(ret[status], row)
                 = Cardinality({q \in PairsOf(students) :
                       status_info(students[q[1]], EnrollmentAt(students, q), status) = row})
       /\ Len(ret.PASS) + Len(ret.FAIL) = Cardinality(PairsOf(students))
       /\ GradesDerived(students) =>
             [k \in 1..Len(ret.FAIL) |-> WithoutStatus(ret.FAIL[k])]
             = view_by_grade(students)["Z"]

\* A categorization of a roster with derived grades that holds the marks 49
\* and 50, the first in FAIL and the second in PASS.
C22_Witness ==
    /\ op = "categorize_pass_fail"
    /\ GradesDerived(students)
    /\ \E k \in 1..Len(ret.FAIL) : ret.FAIL[k].mark = <<"4", "9">>
    /\ \E k \in 1..Len(ret.PASS) : ret.PASS[k].mark = <<"5", "0">>

(***************************************************************************)
(* verify_password and login_student over stored values that are not       *)
(* salt:digest (src/models/auth.py, src/models/session_manager.py).        *)
(***************************************************************************)
\* The number of colons of a stored value.
ColonCount(s) == Cardinality({k \in 1..Len(s) : s[k] = ":"})

\* Stored values made of a hash that verifies pwA: the hash itself, and the
\* hash without its colon, with a colon more at either end or in the
\* digest, with a third part, and the empty string.
StoredValues ==
    LET h == hash_password(pwA, saltA)
    IN  {h,
         SelectSeq(h, LAMBDA c : c # ":"),
         <<>>,
         h \o <<":">>,
         <<":">> \o h,
         h \o <<":">> \o saltA,
         SubSeq(h, 1, Len(h) - 1) \o <<":">> \o SubSeq(h, Len(h), Len(h))}

\* The student whose stored hash is the value.
StoredStudent(h) ==
    [student_id |-> "000001", name |-> "Ann", email |-> "ann@university.com",
     password_hash |-> h]

\* One value is stored; the roster holds its student alone, or before a
\* student with the same email and a hash that verifies pwA, or after a
\* student with another email.
InitStored ==
    /\ IdleStudent /\ IdleRepeat /\ IdleStore
    /\ password = <<>>
    /\ stored \in StoredValues
    /\ students \in {<<StoredStudent(stored)>>, <<StoredStudent(stored), ann3>>,
                     <<bob, StoredStudent(stored)>>}
    /\ sessions = <<>>
    /\ active_sessions = {}
    /\ current_session = NoSession
    /\ now = 0
    /\ op = "init"
    /\ args = <<>>
    /\ ret = None

VerifyStored(q) ==
    /\ op' = "verify_password"
    /\ args' = <<q, stored>>
    /\ ret' = verify_password(q, stored)
    /\ UNCHANGED <<studentVars, sessionVars, repeatVars, hashVars, storeVars>>

NextStored ==
    \/ \E q \in Passwords : VerifyStored(q)
    \/ \E email \in EmailInputs, pw \in PasswordInputs : LoginStudent(email, pw)

SpecStored == InitStored /\ [][NextStored]_vars

\* C23: verify_password answers False (it has no other outcome than True
\* and False) for every stored value whose number of colons is not one,
\* whatever the password; and login_student returns False, whatever the
\* password, when every student of the roster with the email has such a
\* stored hash.
C23_MalformedHashFails ==
    /\ op = "verify_password" =>
          /\ ret \in BOOLEAN
          /\ ColonCount(args[2]) # 1 => ret = FALSE
    /\ op = "login_student" =>
          /\ ret \in BOOLEAN
          /\ (\A i \in 1..Len(students) :
                 students[i].email = args[1] => ColonCount(students[i].password_hash) # 1)
             => ret = FALSE

\* A login with the email of a student whose stored hash has a third part
\* after the digest of the password given, which failed.
C23_Witness ==
    /\ op = "login_student"
    /\ ret = FALSE
    /\ \E i \in 1..Len(students) :
          /\ students[i].email = args[1]
          /\ students[i].password_hash = hash_password(args[2], saltA) \o <<":">> \o saltA

(***************************************************************************)
(* generate_student_id under fair draws (src/models/validation.py).  A     *)
(* number that random.randint can draw is drawn in some later round of the *)
(* loop: the round with that draw is not put off forever.                  *)
(***************************************************************************)
\* No id is registered and no round has run.
InitIds ==
    /\ IdleStudent /\ IdleSession /\ IdleRepeat /\ IdleHash /\ IdleStore
    /\ op = "init"
    /\ args = <<>>
    /\ ret = <<>>

SpecIdsFair ==
    /\ InitIds
    /\ [][NextIds]_vars
    /\ \A n \in IdDraws : WF_vars(DrawAgain(n) \/ GenerateStudentId(n))

\* Whether existing_ids holds every id that a draw can give.
AllIdsTaken ==
    \A n \in IdDraws : ~id_is_new(zfill(DecimalDigits(n), StudentIdWidth), existing_ids)

\* C24: while an id that a draw can give is missing from existing_ids, the
\* loop of generate_student_id comes to a round that returns (the list, to
\* which the caller adds the id, grows by one), and once existing_ids holds
\* every such id no round returns.
C24_TerminatesIffIdMissing ==
    /\ \A k \in 0..(NumIdDraws - 1) :
          (Len(existing_ids) = k) ~> (Len(existing_ids) = k + 1)
    /\ [][AllIdsTaken => op' # "generate_student_id" /\ existing_ids' = existing_ids]_vars

\* Every id is taken and the loop has gone round again.
C24_Witness ==
    /\ AllIdsTaken
    /\ Len(existing_ids) = NumIdDraws
    /\ op = "generate_student_id: retry"

(***************************************************************************)
(* Further claims about the SessionManager specification.                  *)
(***************************************************************************)
\* C25: a login_student or login_admin call that returns False leaves the
\* current-session slot, the active-session table and the Session objects
\* as they were, so the user of the slot and their session are the same
\* after the failed attempt.
C25_FailedLoginChangesNothing ==
    [][op' \in {"login_student", "login_admin"} =>
          (ret' = FALSE =>
              /\ current_session' = current_session
              /\ active_sessions' = active_sessions
              /\ sessions' = sessions)]_vars

\* A student login failed while an admin was the current, valid user.
C25_Witness ==
    /\ op = "login_student"
    /\ ret = FALSE
    /\ current_session # NoSession
    /\ sessions[current_session].user_role = ADMIN
    /\ is_valid(sessions[current_session], now)
    /\ current_session \in active_sessions

\* C27: get_current_session, which is all that is_logged_in and the
\* get_current_user_id, get_current_user_role and get_current_user_name
\* accessors run, changes no Session object; every session of the manager
\* expires SessionHours after its creation; and the accessor answers with a
\* session only before that instant, with None from it on.
C27_AccessorsDoNotExtend ==
    /\ [][op' = "get_current_session" => sessions' = sessions]_vars
    /\ [](\A id \in 1..Len(sessions) :
              sessions[id].expires_at = sessions[id].created_at + 24)
    /\ [](op = "get_current_session" =>
              /\ ret # NoSession => now < sessions[ret].created_at + 24
              /\ current_session = ret)
    /\ [](current_session # NoSession /\ now >= sessions[current_session].created_at + 24
              => get_current_session(current_session, sessions, now).ret = NoSession)

\* The accessor answered None and the slot is empty at the instant 24 hours
\* after the creation of a session that is active and in the table.
C27_Witness ==
    /\ op = "get_current_session"
    /\ ret = NoSession
    /\ current_session = NoSession
    /\ \E id \in 1..Len(sessions) :
          /\ sessions[id].is_active
          /\ id \in active_sessions
          /\ now = sessions[id].created_at + 24

\* C28: whenever the slot holds a session, that session is an entry of the
\* active-session table under its own session_id.
C28_SlotSessionInTable ==
    current_session # NoSession =>
        /\ current_session \in active_sessions
        /\ current_session \in 1..Len(sessions)
        /\ sessions[current_session].session_id = current_session

\* The slot holds the second session of the run, which has expired, while
\* the first is still in the table.
C28_Witness ==
    /\ current_session = 2
    /\ ~is_valid(sessions[2], now)
    /\ active_sessions = {1, 2}

(***************************************************************************)
(* The lifetime of a Session under everything that reaches it: the methods *)
(* of Session, of AuthenticationService and of SessionManager, and the     *)
(* clock (src/models/session.py, auth.py, session_manager.py).             *)
(***************************************************************************)
\* Session.refresh called on a session object.
Refresh(session_id) ==
    /\ session_id \in 1..Len(sessions)
    /\ op' = "refresh"
    /\ args' = <<session_id>>
    /\ sessions' = [sessions EXCEPT ![session_id] = refresh(@, now)]
    /\ ret' = None
    /\ UNCHANGED <<students, active_sessions, current_session, now,
                   studentVars, repeatVars, hashVars, storeVars>>

NextLifetime ==
    \/ \E id \in 1..MaxLifetimeSessions : Refresh(id)
    \/ \E id \in 1..MaxLifetimeSessions : Invalidate(id)
    \/ \E id \in 1..MaxLifetimeSessions : GetSession(id)
    \/ \E id \in 1..MaxLifetimeSessions : AuthLogout(id)
    \/ /\ Len(sessions) < MaxLifetimeSessions
       /\ LoginStudent("ann@university.com", pwA)
    \/ /\ Len(sessions) < MaxLifetimeSessions
       /\ LoginAdmin("admin001", PREDEFINED_ADMINS["admin001"].password)
    \/ Logout
    \/ GetCurrentSession
    \/ Tick

SpecLifetime == InitAuth /\ [][NextLifetime]_vars

delete_student(student_id, roster, f, outcome) ==
    LET found == {i \in 1..Len(roster) : roster[i].student_id = student_id}
    IN  IF found = {}
        THEN [ok |-> FALSE, students |-> roster, file |-> f]
        ELSE LET rest == Without(roster, MinOf(found))
                 saved == save_data(rest, f, outcome)
             IN  [ok |-> saved.ok, students |-> rest, file |-> saved.file]

DeleteStudent(student_id, outcome) ==
    LET r == delete_student(student_id, students, file, outcome)
    IN  /\ students' = r.students
        /\ file' = r.file
        /\ op' = "delete_student"
        /\ args' = <<student_id, outcome>>
        /\ ret' = r.ok
        /\ UNCHANGED <<sessions, active_sessions, current_session, now,
                       studentVars, repeatVars, hashVars, existing_ids>>

NextDelete ==
    \/ \E student_id \in StudentIdInputs, outcome \in WriteOutcomes :
          DeleteStudent(student_id, outcome)
    \/ \E outcome \in WriteOutcomes : SaveData(outcome)

SpecDelete == InitStore /\ [][NextDelete]_vars

\* C30: delete_student returns True exactly when a student with the id was
\* in the roster and the write went through, and when it returns False the
\* roster is the same as before the call.
C30_DeleteStudentContract ==
    [][op' = "delete_student" =>
          /\ ret' = TRUE <=>
                /\ \E i \in 1..Len(students) : students[i].student_id = args'[1]
                /\ args'[2] = "ok"
          /\ ret' = FALSE => students' = students]_vars

(***************************************************************************)
(* SessionManager and Admin on one roster: the logins, the logout and the  *)
(* accessor of the manager, and Admin.remove_student and Admin.clear_all   *)
(* applied to the list that the logins read (src/models/session_manager.py,*)
(* src/models/admin.py).  The two classes share nothing but the list.      *)
(***************************************************************************)
InitRoster ==
    /\ IdleStudent /\ IdleRepeat /\ IdleHash /\ IdleStore
    /\ students \in {<<adminAnn>>, <<adminAnn, adminBob>>}
    /\ sessions = <<>>
    /\ active_sessions = {}
    /\ current_session = NoSession
    /\ now = 0
    /\ op = "init"
    /\ args = <<>>
    /\ ret = None

NextRoster ==
    \/ \E email \in EmailInputs, pw \in PasswordInputs : LoginStudent(email, pw)
    \/ Logout
    \/ GetCurrentSession
    \/ \E student_id \in StudentIdInputs : RemoveStudent(student_id)
    \/ ClearAll
    \/ Tick

SpecRoster == InitRoster /\ [][NextRoster]_vars

\* C29: whenever the current session is valid and has role STUDENT, the
\* roster holds a student whose student_id is the session's user_id.
C29_SessionStudentInRoster ==
    (/\ current_session # NoSession
     /\ is_valid(sessions[current_session], now)
     /\ sessions[current_session].user_role = STUDENT)
    => \E i \in 1..Len(students) :
           students[i].student_id = sessions[current_session].user_id

====
